---- MODULE Spec2Model ----
(***************************************************************************)
(* Model of the Process Launch Supervisor (LaunchService.launch,           *)
(* LaunchService.generateArguments, LaunchService.kill and the handlers    *)
(* launch attaches to a spawned process) and of the Version Resolution &   *)
(* Installation Orchestrator (useInstanceVersionInstall.install).          *)
(*                                                                         *)
(* Strings are modelled as sequences of one-character strings wherever the *)
(* code looks inside them (substring, lastIndexOf, startsWith, replace,    *)
(* trim); "CR" and "LF" stand for the carriage return and the line feed.   *)
(***************************************************************************)
EXTENDS Integers, Sequences, FiniteSets, TLC

\* ------------------------------------------------------------------ bounds
\* launch / generateArguments calls started in one run of Spec
MaxCalls == 2
\* launch calls started in one run of SpecRun
MaxRunCalls == 1
\* stderr chunks received in one run (over all processes)
MaxChunks == 2
\* length of the crash-report locations reported in one run of SpecCrash
MaxLocationLen == 6
\* install calls started in one run of an orchestrator specification
MaxInstalls == 2
MaxLibraries == 2
\* the memory bounds of a request, in units
MaxMemory == 2

VARIABLES
    processes,  \* LaunchService.processes: the pids that have a registry entry
    call,       \* the launch / generateArguments call in flight (or NoCall)
    nCalls,     \* calls started so far
    procs,      \* spawned processes, by pid: closure state of their launch call
    nChunks,    \* stderr chunks received so far
    kills,      \* the last kill() call: its pid, and whether the pid was registered
    versions,   \* the local version store: the headers of `versions.value`, in order
    cache,      \* the remote metadata cache: the keys fetched, with what was fetched
    inst,       \* the install call in flight (or NoInstall)
    nInstalls,  \* install calls started so far
    last,       \* history: the install call that returned last, where recorded
    other       \* a second install call, suspended at its await (or NoInstall)

installVars == <<versions, cache, inst, nInstalls, last, other>>

vars ==
    <<processes, call, nCalls, procs, nChunks, kills, versions, cache, inst, nInstalls, last,
      other>>

\* ------------------------------------------------------------ error values
\* The `type` discriminators of LaunchExceptions.
LaunchExceptionTypes ==
    {"launchNoVersionInstalled", "launchGeneralException", "launchNoProperJava",
     "launchInvalidJavaPath", "launchJavaNoPermission", "launchUserStatusRefreshFailed"}

\* A thrown value is a LaunchException, named by its type, or "Error": any
\* value that is not an instance of LaunchException.
RawError == "Error"

IsLaunchException(e) == e \in LaunchExceptionTypes

\* The outer catch of launch and of generateArguments: a LaunchException is
\* rethrown as it is, anything else is wrapped.
WrapRaw(e) == e
WrapException(e) == IF IsLaunchException(e) THEN e ELSE "launchGeneralException"

\* ----------------------------------------------------------------- options
\* The fields of LaunchOptions the code branches on.  options.java is drawn when
\* the call begins; the other fields are drawn when the call first reads them
\* and are "unread" until then.
\* options.version: absent, present but Version.parse rejects, present and parsed.
VersionInputs == {"none", "unparsable", "installed"}
\* options.java: empty or a path.
JavaInputs == {"", "java"}
\* options.server: absent, an ordinary host, the development-mode authority.
ServerInputs == {"none", "host", "AUTHORITY_DEV"}

\* An optional field that is absent; a number n is <<n>>.
Undefined == <<>>

\* options.minMemory and options.maxMemory: absent or a number.
MemoryInputs == {Undefined} \cup {<<n>> : n \in 1..MaxMemory}
\* options.server.port: absent or a number.
PortInputs == {Undefined, <<25565>>}

\* The fields of LaunchOptions that #generateOptions hands on and the code
\* does not branch on.
RequestInputs == [minMemory : MemoryInputs, maxMemory : MemoryInputs, port : PortInputs]

\* A request without memory bounds and without a port.
PlainRequest == [minMemory |-> Undefined, maxMemory |-> Undefined, port |-> Undefined]

NoOptions ==
    [version |-> "unread", skipAssetsCheck |-> "unread", java |-> "unread",
     server |-> "unread", minMemory |-> <<"unread">>, maxMemory |-> <<"unread">>,
     port |-> <<"unread">>]

\* this.app.server.address(): null, an AddressInfo, or the name of a pipe.
Addresses == {"none", "port", "pipe"}

\* getAddress(), for an address that is not null
GetAddress(address) ==
    IF address = "pipe" THEN "http://localhost<address.substring>/yggdrasil"
    ELSE "http://localhost:<address.port>/yggdrasil"

\* `options.server.host === AUTHORITY_DEV ? getAddress() : options.server.host`
ServerIpUnchanged(host, address) == host
ServerIp(host, address) == IF host = "AUTHORITY_DEV" THEN GetAddress(address) ELSE host

\* launchOptions before #generateOptions has run.
NoLaunchOptions ==
    [minMemory |-> <<"unset">>, maxMemory |-> <<"unset">>,
     server |-> [set |-> FALSE, ip |-> "none", port |-> Undefined]]

\* The LaunchOption #generateOptions returns, in the fields that depend on the
\* request.
GenerateOptions(options, address) ==
    [minMemory |-> options.maxMemory,
     maxMemory |-> options.minMemory,
     server |-> IF options.server = "none"
                THEN [set |-> FALSE, ip |-> "none", port |-> Undefined]
                ELSE [set |-> TRUE, ip |-> ServerIp(options.server, address),
                      port |-> options.port]]

\* `if (options.version) { try { version = await Version.parse(..) } catch {} }`:
\* TRUE when `version` is defined afterwards.
ResolveAnything(options) == options.version # "none"
ResolveVersion(options) == options.version = "installed"

\* `if (!javaPath)`
JavaPathNeverMissing(options) == FALSE
JavaPathMissing(options) == options.java = ""

\* #generateOptions throws exactly when getAddress() is called (the server host
\* is AUTHORITY_DEV) and the app server has no address.
GenerateOptionsThrows(options, address) ==
    options.server = "AUTHORITY_DEV" /\ address = "none"

\* JavaService.validateJavaPath: its three results, or a rejection.
JavaValidations == {"Okay", "NotExisted", "NoPermission", "rejects"}

\* What the try block of the java validation throws for a validation outcome
\* ("none": nothing is thrown).
ValidationThrows(result) ==
    CASE result = "NotExisted" -> "launchInvalidJavaPath"
      [] result = "NoPermission" -> "launchJavaNoPermission"
      [] result = "rejects" -> RawError
      [] OTHER -> "none"

\* The catch block around the java validation: whatever was thrown in the try
\* block, the exceptions thrown there included, is replaced.
JavaCatch(e) == "launchNoProperJava"

\* ------------------------------------------------------------------- calls
\* did: what the call has invoked so far; validation: what validateJavaPath
\* reported to it; at, thrown: where the call failed and the value that reached
\* the outer catch; base: the number of processes spawned before the call began;
\* reported: what the two diagnostics settled with; repairs: the installs the
\* preflight invoked, with their arguments; token: how the token storage
\* answered; accessToken, launchOptions: the locals of those names.
NoCall ==
    [kind |-> "none", pc |-> "idle", options |-> NoOptions, jar |-> "idle",
     lib |-> "idle", did |-> {}, validation |-> "none", at |-> "none",
     thrown |-> "none", result |-> "none", pid |-> 0, base |-> 0,
     reported |-> [jar |-> "none", lib |-> "none", libs |-> <<>>],
     repairs |-> <<>>, token |-> "unread", accessToken |-> "unread",
     launchOptions |-> NoLaunchOptions]

\* ------------------------------------------------------------ install calls
\* The empty string, and undefined: both are falsy where the code tests them.
Empty == <<>>
\* A field of the request the call has not read yet.
Unread == <<"unread">>

\* input: the fields of `runtime`, `side` and `jar`, each drawn when the call
\* first reads it; local: `versions.value` as read at the start; forgeVersion:
\* the local of that name; pending: the argument of the awaited call; log: the
\* collaborator calls made so far; error: the installer that rejected.
NoInstall ==
    [pc |-> "idle",
     input |-> [minecraft |-> Unread, forge |-> Unread, neoForged |-> Unread,
                optifine |-> Unread, fabricLoader |-> Unread, quiltLoader |-> Unread,
                labyMod |-> Unread, side |-> Unread, jar |-> Unread],
     local |-> <<>>, forgeVersion |-> Empty, optifineVersion |-> Empty,
     pending |-> [kind |-> "none", arg |-> Empty], result |-> Empty,
     error |-> "none", log |-> <<>>]

\* kill() may be given any pid, also one no process ever had
KillPids == 1..(MaxCalls + 1)

InitWith(store) ==
    /\ processes = {}
    /\ call = NoCall
    /\ nCalls = 0
    /\ procs = <<>>
    /\ nChunks = 0
    /\ kills = [pid |-> 0, known |-> FALSE]
    /\ versions = store
    /\ cache = {}
    /\ inst = NoInstall
    /\ nInstalls = 0
    /\ last = NoInstall
    /\ other = NoInstall

\* A launcher with an empty version store.
Init == InitWith(<<>>)

\* The call c ends by throwing e through the outer catch.
Throw(c, e) ==
    [c EXCEPT !.pc = "done", !.at = c.pc, !.thrown = e, !.result = WrapException(e)]

\* A caller invokes launch(options) or generateArguments(options); at most max
\* calls are started.
Begin(kind, java, max) ==
    /\ call.pc = "idle"
    /\ nCalls < max
    /\ nCalls' = nCalls + 1
    /\ call' = [NoCall EXCEPT !.kind = kind, !.pc = "resolve", !.options.java = java,
                              !.base = Len(procs)]
    /\ UNCHANGED <<processes, procs, nChunks, kills>>
    /\ UNCHANGED installVars

LaunchBegin == \E java \in JavaInputs : Begin("launch", java, MaxCalls)

GenerateArgumentsBegin == \E java \in JavaInputs : Begin("generateArguments", java, MaxCalls)

\* Version resolution, the same code in both entry points.  launch goes on to
\* the preflight (both diagnostics are started before Promise.all is awaited)
\* unless skipAssetsCheck; generateArguments goes on to the java check.
ResolveStepAlways(version, skip) ==
    /\ call.pc = "resolve"
    /\ LET read == [call EXCEPT !.options.version = version] IN
       call' =
         IF ~ResolveVersion(read.options) THEN Throw(read, "launchNoVersionInstalled")
         ELSE IF call.kind # "launch" THEN [read EXCEPT !.pc = "javaCheck"]
         ELSE [read EXCEPT !.pc = "preflight", !.jar = "diagnose", !.lib = "diagnose",
                           !.options.skipAssetsCheck = skip,
                           !.did = @ \cup {"diagnoseJar", "diagnoseLibraries"}]
    /\ UNCHANGED <<processes, nCalls, procs, nChunks, kills>>
    /\ UNCHANGED installVars
ResolveStep(version, skip) ==
    /\ call.pc = "resolve"
    /\ LET read == [call EXCEPT !.options.version = version] IN
       call' =
         IF ~ResolveVersion(read.options) THEN Throw(read, "launchNoVersionInstalled")
         ELSE IF call.kind # "launch" THEN [read EXCEPT !.pc = "javaCheck"]
         ELSE IF skip THEN [read EXCEPT !.pc = "javaCheck", !.options.skipAssetsCheck = TRUE]
         ELSE [read EXCEPT !.pc = "preflight", !.jar = "diagnose", !.lib = "diagnose",
                           !.options.skipAssetsCheck = FALSE,
                           !.did = @ \cup {"diagnoseJar", "diagnoseLibraries"}]
    /\ UNCHANGED <<processes, nCalls, procs, nChunks, kills>>
    /\ UNCHANGED installVars

Resolve == \E version \in VersionInputs, skip \in BOOLEAN : ResolveStep(version, skip)

\* ---------------------------------------------------------------- preflight
\* diagnoseJar settles: no issue, an issue (installMinecraftJar is started), or
\* a rejection.
DiagnoseJarStep(outcome) ==
    /\ call.jar = "diagnose"
    /\ LET told == [call EXCEPT !.reported.jar = outcome] IN
       call' = CASE outcome = "clean" -> [told EXCEPT !.jar = "ok"]
                 [] outcome = "issue" ->
                       [told EXCEPT !.jar = "install",
                                    !.did = @ \cup {"installMinecraftJar"},
                                    !.repairs = Append(@, [op |-> "installMinecraftJar",
                                                           arg |-> <<>>])]
                 [] OTHER -> [told EXCEPT !.jar = "failed"]
    /\ UNCHANGED <<processes, nCalls, procs, nChunks, kills>>
    /\ UNCHANGED installVars

DiagnoseJar == \E outcome \in {"clean", "issue", "rejects"} : DiagnoseJarStep(outcome)

\* installMinecraftJar settles.
InstallMinecraftJar ==
    /\ call.jar = "install"
    /\ \E ok \in BOOLEAN : call' = [call EXCEPT !.jar = IF ok THEN "ok" ELSE "failed"]
    /\ UNCHANGED <<processes, nCalls, procs, nChunks, kills>>
    /\ UNCHANGED installVars

\* What diagnoseLibraries settles with: a rejection, or the list of the issues
\* found, of at most max libraries; each issue names its library.
LibraryReports(max) ==
    {[rejects |-> TRUE, libs |-> <<>>]}
        \cup {[rejects |-> FALSE, libs |-> [i \in 1..n |-> [library |-> i]]] : n \in 0..max}

\* `libs.map(l => l.library)`
LibrariesFirst(libs) == <<libs[1].library>>
LibrariesOf(libs) == [i \in DOMAIN libs |-> libs[i].library]

\* diagnoseLibraries settles: no library missing, some missing (installLibraries
\* is started with them), or a rejection.
DiagnoseLibrariesStep(report) ==
    /\ call.lib = "diagnose"
    /\ call' =
         IF report.rejects THEN [call EXCEPT !.lib = "failed", !.reported.lib = "rejects"]
         ELSE LET told == [call EXCEPT !.reported.lib = "reported",
                                       !.reported.libs = report.libs] IN
              IF Len(report.libs) > 0
              THEN [told EXCEPT !.lib = "install",
                                !.did = @ \cup {"installLibraries"},
                                !.repairs = Append(@, [op |-> "installLibraries",
                                                       arg |-> LibrariesOf(report.libs)])]
              ELSE [told EXCEPT !.lib = "ok"]
    /\ UNCHANGED <<processes, nCalls, procs, nChunks, kills>>
    /\ UNCHANGED installVars

\* The library diagnostic of a version with one library.
DiagnoseLibraries == \E report \in LibraryReports(1) : DiagnoseLibrariesStep(report)

\* The library diagnostic of a version with MaxLibraries libraries.
DiagnoseAllLibraries ==
    \E report \in LibraryReports(MaxLibraries) : DiagnoseLibrariesStep(report)

\* installLibraries settles.
InstallLibraries ==
    /\ call.lib = "install"
    /\ \E ok \in BOOLEAN : call' = [call EXCEPT !.lib = IF ok THEN "ok" ELSE "failed"]
    /\ UNCHANGED <<processes, nCalls, procs, nChunks, kills>>
    /\ UNCHANGED installVars

\* Promise.all rejects as soon as one branch has rejected; the other branch
\* goes on on its own.
PreflightRejected(jar, lib) == jar = "failed" \/ lib = "failed"

\* Promise.all fulfils when both branches have.
PreflightJoinedEither(jar, lib) == jar = "ok" \/ lib = "ok"
PreflightJoined(jar, lib) == jar = "ok" /\ lib = "ok"

PreflightReject ==
    /\ call.pc = "preflight"
    /\ PreflightRejected(call.jar, call.lib)
    /\ call' = Throw(call, RawError)
    /\ UNCHANGED <<processes, nCalls, procs, nChunks, kills>>
    /\ UNCHANGED installVars

PreflightJoin ==
    /\ call.pc = "preflight"
    /\ PreflightJoined(call.jar, call.lib)
    /\ call' = [call EXCEPT !.pc = "javaCheck"]
    /\ UNCHANGED <<processes, nCalls, procs, nChunks, kills>>
    /\ UNCHANGED installVars

\* -------------------------------------------------------------- java checks
\* `if (!javaPath) throw launchNoProperJava`
JavaCheck ==
    /\ call.pc = "javaCheck"
    /\ call' = IF JavaPathMissing(call.options) THEN Throw(call, "launchNoProperJava")
               ELSE [call EXCEPT !.pc = "options"]
    /\ UNCHANGED <<processes, nCalls, procs, nChunks, kills>>
    /\ UNCHANGED installVars

\* How the token storage answers for options.user, which every request has:
\* it gives the token, or it rejects.
Tokens == {"got", "failed"}

\* `user ? await this.userTokenStorage.get(user).catch(() => undefined) : undefined`
AccessToken(token) == IF token = "got" THEN "token" ELSE "undefined"

\* The access token is awaited (a failure of the token storage is turned into
\* undefined) and #generateOptions runs.  generateArguments then awaits the
\* argument builder, which may reject, and returns.
BuildOptionsStepLaunches(server, address, built, token, rest) ==
    /\ call.pc = "options"
    /\ LET read == [call EXCEPT !.options.server = server, !.token = token,
                                !.accessToken = AccessToken(token),
                                !.options.minMemory = rest.minMemory,
                                !.options.maxMemory = rest.maxMemory,
                                !.options.port = rest.port]
           made == [read EXCEPT !.launchOptions = GenerateOptions(read.options, address)] IN
       call' =
         IF GenerateOptionsThrows(read.options, address) THEN Throw(read, RawError)
         ELSE [made EXCEPT !.pc = "validate"]
    /\ UNCHANGED <<processes, nCalls, procs, nChunks, kills>>
    /\ UNCHANGED installVars
BuildOptionsStep(server, address, built, token, rest) ==
    /\ call.pc = "options"
    /\ LET read == [call EXCEPT !.options.server = server, !.token = token,
                                !.accessToken = AccessToken(token),
                                !.options.minMemory = rest.minMemory,
                                !.options.maxMemory = rest.maxMemory,
                                !.options.port = rest.port]
           made == [read EXCEPT !.launchOptions = GenerateOptions(read.options, address)] IN
       call' =
         IF GenerateOptionsThrows(read.options, address) THEN Throw(read, RawError)
         ELSE IF call.kind = "launch" THEN [made EXCEPT !.pc = "validate"]
         ELSE IF built THEN [made EXCEPT !.pc = "done", !.result = "returned"]
         ELSE Throw(made, RawError)
    /\ UNCHANGED <<processes, nCalls, procs, nChunks, kills>>
    /\ UNCHANGED installVars

BuildOptions ==
    \E server \in ServerInputs, address \in {"none", "port"}, built \in BOOLEAN,
       token \in Tokens :
        BuildOptionsStep(server, address, built, token, PlainRequest)

\* validateJavaPath is awaited inside try/catch.
ValidateJavaStep(result) ==
    /\ call.pc = "validate"
    /\ LET told == [call EXCEPT !.validation = result,
                                !.did = @ \cup {"validateJavaPath"}] IN
       call' = IF ValidationThrows(result) = "none" THEN [told EXCEPT !.pc = "spawn"]
               ELSE Throw(told, JavaCatch(ValidationThrows(result)))
    /\ UNCHANGED <<processes, nCalls, procs, nChunks, kills>>
    /\ UNCHANGED installVars

ValidateJava == \E result \in JavaValidations : ValidateJavaStep(result)

\* ------------------------------------------------- crash-report location text
\* 0-based position of the last occurrence of pat in s, -1 when there is none
\* (String.prototype.lastIndexOf).
LastIndexOf(s, pat) ==
    LET hits == {i \in 0..(Len(s) - Len(pat)) : SubSeq(s, i + 1, i + Len(pat)) = pat}
    IN IF hits = {} THEN -1 ELSE CHOOSE i \in hits : \A j \in hits : j <= i

\* 0-based position of the first occurrence of pat in s, -1 when there is none.
IndexOf(s, pat) ==
    LET hits == {i \in 0..(Len(s) - Len(pat)) : SubSeq(s, i + 1, i + Len(pat)) = pat}
    IN IF hits = {} THEN -1 ELSE CHOOSE i \in hits : \A j \in hits : i <= j

\* s.substring(0, end): end is clamped to the length of s.
SubstringTo(s, end) == SubSeq(s, 1, IF end > Len(s) THEN Len(s) ELSE end)

\* s.replace(pat, ''): with a string pattern only the first occurrence goes.
RemoveFirst(s, pat) ==
    LET i == IndexOf(s, pat)
    IN IF i = -1 THEN s ELSE SubSeq(s, 1, i) \o SubSeq(s, i + Len(pat) + 1, Len(s))

\* The characters String.prototype.trim removes at both ends.
WhiteSpace == {" ", "CR", "LF"}

RECURSIVE TrimStart(_)
TrimStart(s) == IF s # <<>> /\ Head(s) \in WhiteSpace THEN TrimStart(Tail(s)) ELSE s

RECURSIVE TrimEnd(_)
TrimEnd(s) ==
    IF s # <<>> /\ s[Len(s)] \in WhiteSpace THEN TrimEnd(SubSeq(s, 1, Len(s) - 1)) ELSE s

Trim(s) == TrimEnd(TrimStart(s))

DotTxt == <<".", "t", "x", "t">>
CRLF == <<"CR", "LF">>

\* The exit handler, run when the watcher reports the termination:
\* `if (crashReportLocation) crashReportLocation =
\*    crashReportLocation.substring(0, crashReportLocation.lastIndexOf('.txt') + 4)`
\* (an absent location is modelled as the empty string: both are falsy).
TruncateLocation(location) ==
    IF location = <<>> THEN location
    ELSE SubstringTo(location, LastIndexOf(location, DotTxt) + 4)

\* The value put in the exit event:
\* `crashReportLocation ? crashReportLocation.replace('\r\n', '').trim() : ''`
CleanLocation(location) ==
    IF location = <<>> THEN <<>> ELSE Trim(RemoveFirst(location, CRLF))

NormalizeCrashReportLocation(location) == CleanLocation(TruncateLocation(location))

\* Crash-report locations the watcher reports in the supervisor model: none,
\* and a path followed by a line feed and more text.
CrashLocations == {<<>>, <<"c", ".", "t", "x", "t", "LF", "T">>}

\* --------------------------------------------------------------- processes
\* The closure state launch creates for a spawned process.  chunks[i] is the
\* state of processError for the i-th stderr chunk (errPromises[i]); errorLogs
\* holds, for each chunk appended, its index (one entry stands for its lines);
\* reported is the crash-report location the watcher gave, location the
\* handler's variable, report what else the watcher gave with the time played,
\* exit the payload of the minecraft-exit event.  encodings[i] is the encoding
\* the i-th stderr chunk is decoded with; outs and outEncodings are the same
\* for the stdout chunks (processLog); texts holds the text events emitted,
\* each with its stream, its chunk and the encoding used; startPid is the pid
\* minecraft-start carries.
NoReport == [code |-> "none", signal |-> "none", crashReport |-> "none", playTime |-> 0]

NewProcess ==
    [st |-> "running", chunks |-> <<>>, awaited |-> 0, errorLogs |-> <<>>,
     events |-> <<"minecraft-start">>, signals |-> 0, reported |-> <<>>,
     location |-> <<>>, report |-> NoReport,
     exit |-> [pid |-> 0, report |-> NoReport, crashReportLocation |-> <<>>,
               errorLog |-> <<>>],
     encodings |-> <<>>, outs |-> <<>>, outEncodings |-> <<>>, texts |-> <<>>,
     startPid |-> 0]

\* The process spawned with the given pid, once minecraft-start is emitted.
StartedUnannounced(pid) == [NewProcess EXCEPT !.startPid = pid, !.events = <<>>]
Started(pid) == [NewProcess EXCEPT !.startPid = pid]

\* A process that ends by itself with code 0 after one unit of time.
CleanExit == [code |-> "0", signal |-> "null", crashReport |-> "", playTime |-> 1]

\* What the watcher gives at the exit, with `endTime - startTime`: a clean
\* exit, a crash with its report, a process ended by a signal.
ExitReports ==
    {CleanExit,
     [code |-> "1", signal |-> "null", crashReport |-> "crash", playTime |-> 2],
     [code |-> "null", signal |-> "SIGTERM", crashReport |-> "", playTime |-> 1]}

Range(s) == {s[i] : i \in DOMAIN s}

\* `const process = await launch(launchOptions)`: the spawn rejects, or it
\* gives a process, which is registered under its pid; minecraft-start is
\* emitted and the handlers are attached, in the same turn.
SpawnRegistersFirst(spawned) ==
    /\ call.pc = "spawn"
    /\ processes' = processes \cup {Len(procs) + 1}
    /\ procs' = Append(procs, Started(Len(procs) + 1))
    /\ call' = IF spawned
               THEN [call EXCEPT !.pc = "done", !.result = "returned",
                                 !.pid = Len(procs) + 1,
                                 !.did = @ \cup {"spawn", "minecraft-start"}]
               ELSE Throw(call, RawError)
    /\ UNCHANGED <<nCalls, nChunks, kills>>
    /\ UNCHANGED installVars
SpawnStepOtherKey(spawned) ==
    /\ call.pc = "spawn"
    /\ IF spawned
       THEN LET pid == Len(procs) + 1 IN
            /\ processes' = processes \cup {pid + 1}
            /\ procs' = Append(procs, Started(pid))
            /\ call' = [call EXCEPT !.pc = "done", !.result = "returned", !.pid = pid,
                                    !.did = @ \cup {"spawn", "minecraft-start"}]
       ELSE /\ call' = Throw(call, RawError)
            /\ UNCHANGED <<processes, procs>>
    /\ UNCHANGED <<nCalls, nChunks, kills>>
    /\ UNCHANGED installVars
SpawnStep(spawned) ==
    /\ call.pc = "spawn"
    /\ IF spawned
       THEN LET pid == Len(procs) + 1 IN
            /\ processes' = processes \cup {pid}
            /\ procs' = Append(procs, Started(pid))
            /\ call' = [call EXCEPT !.pc = "done", !.result = "returned", !.pid = pid,
                                    !.did = @ \cup {"spawn", "minecraft-start"}]
       ELSE /\ call' = Throw(call, RawError)
            /\ UNCHANGED <<processes, procs>>
    /\ UNCHANGED <<nCalls, nChunks, kills>>
    /\ UNCHANGED installVars

Spawn == \E spawned \in BOOLEAN : SpawnStep(spawned)

\* The caller has the result; the call's record is dropped once the preflight
\* branches it started have settled.
Return ==
    /\ call.pc = "done"
    /\ call.jar \in {"idle", "ok", "failed"}
    /\ call.lib \in {"idle", "ok", "failed"}
    /\ call' = NoCall
    /\ UNCHANGED <<processes, nCalls, procs, nChunks, kills>>
    /\ UNCHANGED installVars

\* What guessEncodingByBuffer settles with: an encoding, no encoding, or a
\* rejection, which is caught and gives no encoding.
Guesses == {"encoding", "none", "rejects"}

\* `encoding || UTF8`
Encoding(guess) == IF guess = "encoding" THEN "guessed" ELSE "UTF8"

\* process.stderr 'data': `errPromises.push(processError(buf))`; processError
\* starts by awaiting the encoding guess.
StderrData(p) ==
    /\ nChunks < MaxChunks
    /\ nChunks' = nChunks + 1
    /\ procs' = [procs EXCEPT ![p].chunks = Append(@, "guess"),
                              ![p].encodings = Append(@, "unset")]
    /\ UNCHANGED <<processes, call, nCalls, kills>>
    /\ UNCHANGED installVars

\* guessEncodingByBuffer settles (a rejection is caught and gives no encoding,
\* so that UTF8 is used); decode is awaited next.
GuessEncoding(p, i, guess) ==
    /\ procs[p].chunks[i] = "guess"
    /\ procs' = [procs EXCEPT ![p].chunks[i] = "decode",
                              ![p].encodings[i] = Encoding(guess)]
    /\ UNCHANGED <<processes, call, nCalls, nChunks, kills>>
    /\ UNCHANGED installVars

\* decode settles: the text is emitted as minecraft-stderr and its lines are
\* pushed to errorLogs, or processError rejects.
Decode(p, i, decoded) ==
    /\ procs[p].chunks[i] = "decode"
    /\ procs' = IF decoded
                THEN [procs EXCEPT ![p].chunks[i] = "done",
                                   ![p].events = Append(@, "minecraft-stderr"),
                                   ![p].texts = Append(@, [stream |-> "stderr", chunk |-> i,
                                                           encoding |-> procs[p].encodings[i]]),
                                   ![p].errorLogs = Append(@, i)]
                ELSE [procs EXCEPT ![p].chunks[i] = "failed"]
    /\ UNCHANGED <<processes, call, nCalls, nChunks, kills>>
    /\ UNCHANGED installVars

\* process.stdout 'data': `processLog(s).catch(this.error)`; processLog starts
\* by awaiting the encoding guess.
StdoutData(p) ==
    /\ nChunks < MaxChunks
    /\ nChunks' = nChunks + 1
    /\ procs' = [procs EXCEPT ![p].outs = Append(@, "guess"),
                              ![p].outEncodings = Append(@, "unset")]
    /\ UNCHANGED <<processes, call, nCalls, kills>>
    /\ UNCHANGED installVars

\* guessEncodingByBuffer settles for a stdout chunk.
StdoutGuess(p, i, guess) ==
    /\ procs[p].outs[i] = "guess"
    /\ procs' = [procs EXCEPT ![p].outs[i] = "decode",
                              ![p].outEncodings[i] = Encoding(guess)]
    /\ UNCHANGED <<processes, call, nCalls, nChunks, kills>>
    /\ UNCHANGED installVars

\* decode settles for a stdout chunk: the text is emitted as minecraft-stdout,
\* or processLog rejects and the rejection is logged.
StdoutDecode(p, i, decoded) ==
    /\ procs[p].outs[i] = "decode"
    /\ procs' = IF decoded
                THEN [procs EXCEPT ![p].outs[i] = "done",
                                   ![p].events = Append(@, "minecraft-stdout"),
                                   ![p].texts = Append(@, [stream |-> "stdout", chunk |-> i,
                                                           encoding |-> procs[p].outEncodings[i]])]
                ELSE [procs EXCEPT ![p].outs[i] = "failed"]
    /\ UNCHANGED <<processes, call, nCalls, nChunks, kills>>
    /\ UNCHANGED installVars

\* The watcher's minecraft-window-ready, which it gives once, while the
\* process runs.
WindowReady(p) ==
    /\ procs[p].st = "running"
    /\ \A k \in DOMAIN procs[p].events : procs[p].events[k] # "minecraft-window-ready"
    /\ procs' = [procs EXCEPT ![p].events = Append(@, "minecraft-window-ready")]
    /\ UNCHANGED <<processes, call, nCalls, nChunks, kills>>
    /\ UNCHANGED installVars

\* The watcher's minecraft-exit: the location is truncated, Promise.all takes
\* the promises errPromises holds now, and the registry entry is deleted.
ProcessExitKeepsEntry(p, location, report) ==
    /\ procs[p].st = "running"
    /\ procs' = [procs EXCEPT ![p].st = "exiting",
                              ![p].awaited = Len(procs[p].chunks),
                              ![p].reported = location,
                              ![p].report = report,
                              ![p].location = TruncateLocation(location)]
    /\ UNCHANGED <<processes, call, nCalls, nChunks, kills>>
    /\ UNCHANGED installVars
ProcessExit(p, location, report) ==
    /\ procs[p].st = "running"
    /\ procs' = [procs EXCEPT ![p].st = "exiting",
                              ![p].awaited = Len(procs[p].chunks),
                              ![p].reported = location,
                              ![p].report = report,
                              ![p].location = TruncateLocation(location)]
    /\ processes' = processes \ {p}
    /\ UNCHANGED <<call, nCalls, nChunks, kills>>
    /\ UNCHANGED installVars

\* A running process terminates, reporting one of the given locations and one
\* of the given exits.
ProcessExits(locations, reports) ==
    \E p \in DOMAIN procs :
        /\ procs[p].st = "running"
        /\ \E location \in locations, report \in reports : ProcessExit(p, location, report)

\* Promise.all(errPromises) is settled: rejected once one of the promises it
\* took has rejected, fulfilled when all of them have.
AwaitSettled(chunks, awaited) ==
    \/ \E i \in 1..awaited : chunks[i] = "failed"
    \/ \A i \in 1..awaited : chunks[i] = "done"

\* `.catch(..).finally(() => this.emit('minecraft-exit', ..))`
ExitEmit(p) ==
    /\ procs[p].st = "exiting"
    /\ AwaitSettled(procs[p].chunks, procs[p].awaited)
    /\ procs' = [procs EXCEPT ![p].st = "exited",
                              ![p].events = Append(@, "minecraft-exit"),
                              ![p].exit = [pid |-> p, report |-> procs[p].report,
                                           crashReportLocation |-> CleanLocation(procs[p].location),
                                           errorLog |-> procs[p].errorLogs]]
    /\ UNCHANGED <<processes, call, nCalls, nChunks, kills>>
    /\ UNCHANGED installVars

\* -------------------------------------------------------------------- kill
\* `delete this.processes[pid]`
RegistryKeep(registry, pid) == registry
RegistryAfterKill(registry, pid) == registry \ {pid}

\* `if (process) process.kill()`: whether the handle is signalled.
KillSignalsAlways(registry, pid) == TRUE
KillSignals(registry, pid) == pid \in registry

Kill(pid) ==
    /\ kills' = [pid |-> pid, known |-> pid \in processes]
    /\ processes' = RegistryAfterKill(processes, pid)
    /\ procs' = IF KillSignals(processes, pid) /\ pid \in DOMAIN procs
                THEN [procs EXCEPT ![pid].signals = @ + 1]
                ELSE procs
    /\ UNCHANGED <<call, nCalls, nChunks>>
    /\ UNCHANGED installVars

\* ------------------------------------------------------------- orchestrator
\* Version strings are sequences of characters.
MinecraftVersions == {<<"1">>, <<"2">>}

OptifineEdition == <<"H", "_", "I">>

\* The requests: each loader unset or set; optifine also given with a base
\* version in front of it.
InstallInputs ==
    [minecraft : MinecraftVersions,
     forge : {Empty, <<"f">>},
     neoForged : {Empty, <<"n">>},
     optifine : {Empty, OptifineEdition}
                  \cup {m \o <<"_">> \o OptifineEdition : m \in MinecraftVersions},
     fabricLoader : {Empty, <<"a">>},
     quiltLoader : {Empty, <<"q">>},
     labyMod : {Empty, <<"l">>},
     side : {<<"client">>, <<"server">>},
     jar : {<<"yes">>, <<"no">>}]

\* The requests with the loaders after NeoForge unset and optifine given bare.
ForgeInputs ==
    [minecraft : MinecraftVersions,
     forge : {Empty, <<"f">>},
     neoForged : {Empty, <<"n">>},
     optifine : {Empty, OptifineEdition},
     fabricLoader : {Empty},
     quiltLoader : {Empty},
     labyMod : {Empty},
     side : {<<"client">>, <<"server">>},
     jar : {<<"yes">>, <<"no">>}]

\* The requests for one base version, with optifine given bare.
OneBaseInputs ==
    {input \in InstallInputs :
        input.minecraft = <<"1">> /\ input.optifine \in {Empty, OptifineEdition}}

\* The requests for one base version with forge, neoForged and optifine unset.
LoaderInputs ==
    {input \in OneBaseInputs :
        input.forge = Empty /\ input.neoForged = Empty /\ input.optifine = Empty}

\* The client requests with optifine set: bare, with a base version in front
\* of it, or nothing but a base version.
OptifineInputs ==
    [minecraft : MinecraftVersions,
     forge : {Empty, <<"f">>},
     neoForged : {Empty},
     optifine : {OptifineEdition} \cup MinecraftVersions
                  \cup {m \o <<"_">> \o OptifineEdition : m \in MinecraftVersions},
     fabricLoader : {Empty, <<"a">>},
     quiltLoader : {Empty, <<"q">>},
     labyMod : {Empty, <<"l">>},
     side : {<<"client">>},
     jar : {<<"no">>}]

\* The requests for one base version with Forge or NeoForge and nothing else.
CatalogInputs ==
    {input \in ForgeInputs : input.minecraft = <<"1">> /\ input.optifine = Empty}

\* The client requests for one base version with or without Forge.
ForgeOnlyInputs ==
    {input \in CatalogInputs :
        /\ input.neoForged = Empty /\ input.labyMod = Empty
        /\ input.fabricLoader = Empty /\ input.quiltLoader = Empty
        /\ input.side = <<"client">> /\ input.jar = <<"no">>}

\* The client requests for base versions, Forge, NeoForge and LabyMod.
KeyInputs ==
    {input \in InstallInputs :
        /\ input.optifine = Empty /\ input.fabricLoader = Empty /\ input.quiltLoader = Empty
        /\ input.side = <<"client">> /\ input.jar = <<"no">>}

\* The requests that agree with the fields the call has read.
Requests(c, inputs) ==
    {input \in inputs : \A f \in DOMAIN c.input : c.input[f] \in {Unread, input[f]}}

Read(c, input, f) == [c EXCEPT !.input[f] = input[f]]

\* A LocalVersionHeader; BlankHeader also stands for `undefined`, the result
\* of a find that matches nothing.
BlankHeader ==
    [id |-> Empty, minecraft |-> Empty, forge |-> Empty, neoForged |-> Empty,
     fabric |-> Empty, quilt |-> Empty, optifine |-> Empty, labyMod |-> Empty]

\* Array.prototype.find: the first of the elements of local at the indices
\* `matching`, those the predicate holds of.
Find(local, matching) ==
    IF matching # {}
    THEN local[CHOOSE i \in matching : \A j \in matching : i <= j]
    ELSE BlankHeader

\* The predicates of the local lookups.
MatchMinecraftField(v, minecraft) == v.minecraft = minecraft
MatchMinecraft(v, minecraft) == v.id = minecraft

MatchForgeById(v, minecraft, forge) == v.id = forge /\ v.minecraft = minecraft
MatchForge(v, minecraft, forge) == v.forge = forge /\ v.minecraft = minecraft

MatchNeoForged(v, minecraft, neoForged) == v.neoForged = neoForged /\ v.minecraft = minecraft

MatchOptifineById(v, minecraft, optifineVersion, forgeVersion) ==
    v.minecraft = minecraft /\ v.id = optifineVersion
MatchOptifine(v, minecraft, optifineVersion, forgeVersion) ==
    v.minecraft = minecraft /\ v.optifine = optifineVersion /\ v.forge = forgeVersion

MatchFabric(v, minecraft, fabricLoader) == v.fabric = fabricLoader /\ v.minecraft = minecraft

MatchQuilt(v, minecraft, quiltLoader) == v.quilt = quiltLoader /\ v.minecraft = minecraft

MatchLabyMod(v, minecraft, labyMod) == v.labyMod = labyMod /\ v.minecraft = minecraft

\* The cache keys.
MinecraftKey == <<"/minecraft-versions">>
ForgeKeyFixed(minecraft) == <<"/forge-versions/">>
ForgeKey(minecraft) == <<"/forge-versions/">> \o minecraft
NeoForgedKey(minecraft) == <<"/neoforged-versions/">> \o minecraft
LabyModKey == <<"/labymod">>

\* `optifineVersion.startsWith(minecraft)` and the substring taken then.
StartsWith(s, prefix) ==
    Len(prefix) <= Len(s) /\ SubSeq(s, 1, Len(prefix)) = prefix

KeepOptifine(optifine, minecraft) == optifine
NormalizeOptifine(optifine, minecraft) ==
    IF StartsWith(optifine, minecraft)
    THEN SubSeq(optifine, Len(minecraft) + 1, Len(optifine))
    ELSE optifine

\* parseOptifineVersion: the text is split at its last underscore.
ParseOptifineVersion(version) ==
    LET index == LastIndexOf(version, <<"_">>)
    IN [type |-> SubSeq(version, 1, index), patch |-> SubSeq(version, index + 2, Len(version))]

\* One more collaborator call in the log.
Logged(c, op, kind, arg) ==
    [c EXCEPT !.log = Append(@, [op |-> op, kind |-> kind, arg |-> arg])]

\* The call c awaits the collaborator call `op` of `kind` with argument arg.
Await(c, op, kind, arg) ==
    [Logged(c, op, kind, arg) EXCEPT !.pc = op, !.pending = [kind |-> kind, arg |-> arg]]

\* `return id`
Finish(c, id) ==
    [c EXCEPT !.pc = "done", !.result = id, !.pending = [kind |-> "none", arg |-> Empty]]

\* The code from `if (labyMod)` on.
AtLabyMod(c, input) ==
    LET read == Read(c, input, "labyMod")
        localLabyMod ==
            Find(c.local,
                 {i \in DOMAIN c.local :
                     MatchLabyMod(c.local[i], input.minecraft, input.labyMod)})
    IN IF input.labyMod = Empty THEN Finish(read, input.minecraft)
       ELSE IF localLabyMod # BlankHeader
            THEN Await(read, "refresh", "labyMod", localLabyMod.id)
            ELSE Await(read, "getCacheOrFetch", "labyMod", LabyModKey)

\* The code from `if (quiltLoader)` on.
AtQuilt(c, input) ==
    LET read == Read(c, input, "quiltLoader")
        localQuilt ==
            Find(c.local,
                 {i \in DOMAIN c.local :
                     MatchQuilt(c.local[i], input.minecraft, input.quiltLoader)})
    IN IF input.quiltLoader = Empty THEN AtLabyMod(read, input)
       ELSE IF localQuilt # BlankHeader
            THEN Await(read, "refresh", "quilt", localQuilt.id)
            ELSE Await(read, "install", "quilt", <<input.quiltLoader, input.minecraft>>)

\* The code from `if (fabricLoader)` on.
AtFabricSkipped(c, input) == AtQuilt(Read(c, input, "fabricLoader"), input)
AtFabric(c, input) ==
    LET read == Read(c, input, "fabricLoader")
        localFabric ==
            Find(c.local,
                 {i \in DOMAIN c.local :
                     MatchFabric(c.local[i], input.minecraft, input.fabricLoader)})
    IN IF input.fabricLoader = Empty THEN AtQuilt(read, input)
       ELSE IF localFabric # BlankHeader
            THEN Await(read, "refresh", "fabric", localFabric.id)
            ELSE Await(read, "install", "fabric", <<input.fabricLoader, input.minecraft>>)

\* The code from `if (optifine)` on.
AtOptifineFallsThrough(c, input) == AtFabric(Read(c, input, "optifine"), input)
AtOptifine(c, input) ==
    LET optifineVersion == NormalizeOptifine(input.optifine, input.minecraft)
        read == IF input.optifine # Empty
                THEN [Read(c, input, "optifine") EXCEPT !.optifineVersion = optifineVersion]
                ELSE Read(c, input, "optifine")
        localOptifine ==
            Find(c.local,
                 {i \in DOMAIN c.local :
                     MatchOptifine(c.local[i], input.minecraft, optifineVersion, c.forgeVersion)})
        parsed == ParseOptifineVersion(optifineVersion)
    IN IF input.optifine # Empty
       THEN IF localOptifine # BlankHeader
            THEN Await(read, "refresh", "optifine", localOptifine.id)
            ELSE Await(read, "install", "optifine",
                       <<parsed.type, parsed.patch, input.minecraft, c.forgeVersion>>)
       ELSE IF c.forgeVersion # Empty THEN Finish(read, c.forgeVersion)
       ELSE AtFabric(read, input)

\* The code from `if (neoForged)` on.
AtNeoForged(c, input) ==
    LET read == Read(c, input, "neoForged")
        localNeoForge ==
            Find(c.local,
                 {i \in DOMAIN c.local :
                     MatchNeoForged(c.local[i], input.minecraft, input.neoForged)})
    IN IF input.neoForged = Empty THEN AtOptifine(read, input)
       ELSE IF localNeoForge # BlankHeader
            THEN Await([read EXCEPT !.forgeVersion = localNeoForge.id],
                       "refresh", "neoForged", localNeoForge.id)
            ELSE Await(read, "getCacheOrFetch", "neoForged", NeoForgedKey(input.minecraft))

\* The code from `if (forge)` on.
AtForgeJoined(c, input) ==
    LET read == Read(c, input, "forge")
        localForge ==
            Find(c.local,
                 {i \in DOMAIN c.local :
                     MatchForge(c.local[i], input.minecraft, input.forge)})
        joined ==
            /\ other.pc = "install" /\ other.pending.kind = "forge"
            /\ other.pending.arg[1] = input.minecraft /\ other.input.forge = input.forge
    IN IF input.forge = Empty THEN AtNeoForged(read, input)
       ELSE IF localForge # BlankHeader
            THEN Await([read EXCEPT !.forgeVersion = localForge.id],
                       "refresh", "forge", localForge.id)
            ELSE IF joined
                 THEN AtNeoForged([read EXCEPT !.forgeVersion = other.pending.arg[2]], input)
                 ELSE Await(read, "getCacheOrFetch", "forge", ForgeKey(input.minecraft))
AtForge(c, input) ==
    LET read == Read(c, input, "forge")
        localForge ==
            Find(c.local,
                 {i \in DOMAIN c.local :
                     MatchForge(c.local[i], input.minecraft, input.forge)})
    IN IF input.forge = Empty THEN AtNeoForged(read, input)
       ELSE IF localForge # BlankHeader
            THEN Await([read EXCEPT !.forgeVersion = localForge.id],
                       "refresh", "forge", localForge.id)
            ELSE Await(read, "getCacheOrFetch", "forge", ForgeKey(input.minecraft))

\* The base step, run with the catalog mcVersions: `local` is read, then the
\* base version is installed or refreshed.
AtMinecraft(c, input, mcVersions) ==
    LET held == [c EXCEPT !.local = versions]
        localMinecraft ==
            Find(versions,
                 {i \in DOMAIN versions : MatchMinecraft(versions[i], input.minecraft)})
        metadata == IF input.minecraft \in mcVersions THEN input.minecraft ELSE Empty
    IN IF localMinecraft = BlankHeader
       THEN Await(Read(held, input, "side"), "install", "minecraft", <<metadata, input.side>>)
       ELSE IF input.jar = <<"yes">>
            THEN Await(Read(Read(held, input, "jar"), input, "side"),
                       "install", "minecraft", <<metadata, input.side>>)
            ELSE Await(Read(held, input, "jar"), "refresh", "minecraft", localMinecraft.id)

\* What the remote lists under a key: the catalog may or may not hold the
\* version asked for; the LabyMod manifest is one document.
Catalogs(kind) ==
    CASE kind = "minecraft" -> {MinecraftVersions, {}}
      [] kind = "forge" -> {{<<"f">>}, {}}
      [] kind = "neoForged" -> {{<<"n">>}, {}}
      [] OTHER -> {{<<"l">>}}

Cached(key) == \E entry \in cache : entry.key = key

CachedContent(key) == (CHOOSE entry \in cache : entry.key = key).content

\* The artifact id an installer returns, and the header the store holds for it
\* afterwards.  An Optifine artifact keeps the loader fields of the artifact
\* it inherits from.
InstalledId(kind, arg) ==
    CASE kind = "minecraft" -> arg[1]
      [] kind = "forge" -> arg[1] \o <<"-forge-">> \o arg[2]
      [] kind = "neoForged" -> arg[2] \o <<"-neoforge-">> \o arg[1]
      [] kind = "optifine" ->
            IF arg[4] = Empty
            THEN arg[3] \o <<"-OptiFine_">> \o arg[1] \o <<"_">> \o arg[2]
            ELSE arg[4] \o <<"-OptiFine_">> \o arg[1] \o <<"_">> \o arg[2]
      [] kind = "fabric" -> arg[2] \o <<"-fabric">> \o arg[1]
      [] kind = "quilt" -> arg[2] \o <<"-quilt">> \o arg[1]
      [] OTHER -> arg[2] \o <<"-labymod">>

InstalledHeader(kind, arg) ==
    LET id == InstalledId(kind, arg) IN
    CASE kind = "minecraft" -> [BlankHeader EXCEPT !.id = id, !.minecraft = arg[1]]
      [] kind = "forge" -> [BlankHeader EXCEPT !.id = id, !.minecraft = arg[1], !.forge = arg[2]]
      [] kind = "neoForged" ->
            [BlankHeader EXCEPT !.id = id, !.minecraft = arg[2], !.neoForged = arg[1]]
      [] kind = "optifine" ->
            LET parent == Find(versions, {i \in DOMAIN versions : versions[i].id = arg[4]})
            IN [parent EXCEPT !.id = id, !.minecraft = arg[3],
                              !.optifine = arg[1] \o <<"_">> \o arg[2]]
      [] kind = "fabric" -> [BlankHeader EXCEPT !.id = id, !.minecraft = arg[2], !.fabric = arg[1]]
      [] kind = "quilt" -> [BlankHeader EXCEPT !.id = id, !.minecraft = arg[2], !.quilt = arg[1]]
      [] OTHER -> [BlankHeader EXCEPT !.id = id, !.minecraft = arg[2], !.labyMod = arg[1]]

\* The store after an installer has succeeded.  A server install of the base
\* version leaves no header in the (client) store.
Installed(store, kind, arg) ==
    IF kind = "minecraft" /\ arg[2] = <<"server">> THEN store
    ELSE IF \E i \in DOMAIN store : store[i].id = InstalledId(kind, arg) THEN store
    ELSE Append(store, InstalledHeader(kind, arg))

\* An install call begins: the request is destructured and the base-version
\* catalog is asked for.
InstallBegin(inputs) ==
    /\ inst.pc = "idle"
    /\ nInstalls < MaxInstalls
    /\ nInstalls' = nInstalls + 1
    /\ \E input \in inputs :
         inst' = Await(Read(NoInstall, input, "minecraft"), "getCacheOrFetch", "minecraft",
                       MinecraftKey)
    /\ UNCHANGED <<versions, cache, last, other>>
    /\ UNCHANGED <<processes, call, nCalls, procs, nChunks, kills>>

\* `found?.version ?? forge` (and `found ?? neoForged`): the catalog's entry
\* for the requested version, or the requested string.
VersionId(content, requested) ==
    IF \E found \in content : found = requested
    THEN CHOOSE found \in content : found = requested
    ELSE requested

\* `found?.installer`: the installer reference of the catalog's entry, if any.
AnyInstaller(content, forge) == <<"installer">>
FoundInstaller(content, forge) ==
    IF \E found \in content : found = forge THEN <<"installer">> ELSE Empty

\* The code that runs with what getCacheOrFetch gave, up to the next await.
AfterFetch(c, input, content) ==
    CASE c.pending.kind = "minecraft" -> AtMinecraft(c, input, content)
      [] c.pending.kind = "forge" ->
            Await(Read(c, input, "side"), "install", "forge",
                  <<input.minecraft, VersionId(content, input.forge),
                    FoundInstaller(content, input.forge), input.side>>)
      [] c.pending.kind = "neoForged" ->
            Await(c, "install", "neoForged",
                  <<VersionId(content, input.neoForged), input.minecraft>>)
      [] OTHER ->
            Await(c, "install", "labyMod", <<CHOOSE m \in content : TRUE, input.minecraft>>)

\* getCacheOrFetch settles: with the cached value, or, when the key is not
\* cached, with what the fetcher gets, which is cached.
GetCacheOrFetch(inputs) ==
    /\ inst.pc = "getCacheOrFetch"
    /\ \E input \in Requests(inst, inputs) :
         /\ IF Cached(inst.pending.arg)
            THEN /\ inst' = AfterFetch(inst, input, CachedContent(inst.pending.arg))
                 /\ cache' = cache
            ELSE \E content \in Catalogs(inst.pending.kind) :
                   /\ inst' = AfterFetch(Logged(inst, "fetch", inst.pending.kind,
                                                inst.pending.arg), input, content)
                   /\ cache' = cache \cup {[key |-> inst.pending.arg, content |-> content]}
    /\ UNCHANGED <<versions, nInstalls, last, other>>
    /\ UNCHANGED <<processes, call, nCalls, procs, nChunks, kills>>

\* The code that runs after the awaited refresh or installer, up to the next
\* await; id is what the installer returned.
AfterStepUnassigned(c, input, id) ==
    CASE c.pending.kind = "minecraft" -> AtForge(c, input)
      [] c.pending.kind = "forge" -> AtNeoForged(c, input)
      [] c.pending.kind = "neoForged" -> AtOptifine(c, input)
      [] OTHER -> Finish(c, id)
AfterStep(c, input, id) ==
    CASE c.pending.kind = "minecraft" -> AtForge(c, input)
      [] c.pending.kind = "forge" ->
            AtNeoForged(IF c.pc = "install" THEN [c EXCEPT !.forgeVersion = id] ELSE c, input)
      [] c.pending.kind = "neoForged" ->
            AtOptifine(IF c.pc = "install" THEN [c EXCEPT !.forgeVersion = id] ELSE c, input)
      [] OTHER -> Finish(c, id)

\* refreshVersion settles.
RefreshVersion(inputs) ==
    /\ inst.pc = "refresh"
    /\ \E input \in Requests(inst, inputs) :
         /\ inst' = AfterStep(inst, input, inst.pending.arg)
    /\ UNCHANGED <<versions, cache, nInstalls, last, other>>
    /\ UNCHANGED <<processes, call, nCalls, procs, nChunks, kills>>

\* The awaited installer rejects: the rejection leaves install as it is.
RejectedRetried(c) == Await(c, "install", c.pending.kind, c.pending.arg)
Rejected(c) == [c EXCEPT !.pc = "done", !.error = c.pending.kind]

\* An installer settles: it rejects, and install rejects with it, or it has
\* installed the artifact.  The base installer cannot install without the
\* catalog entry.
Installer(inputs) ==
    /\ inst.pc = "install"
    /\ \E input \in Requests(inst, inputs), ok \in BOOLEAN :
         /\ IF ok /\ ~(inst.pending.kind = "minecraft" /\ inst.pending.arg[1] = Empty)
            THEN /\ versions' = Installed(versions, inst.pending.kind, inst.pending.arg)
                 /\ inst' = AfterStep(inst, input,
                                      InstalledId(inst.pending.kind, inst.pending.arg))
            ELSE /\ versions' = versions
                 /\ inst' = Rejected(inst)
    /\ UNCHANGED <<cache, nInstalls, last, other>>
    /\ UNCHANGED <<processes, call, nCalls, procs, nChunks, kills>>

\* The caller has the result.
InstallReturn ==
    /\ inst.pc = "done"
    /\ inst' = NoInstall
    /\ UNCHANGED <<versions, cache, nInstalls, last, other>>
    /\ UNCHANGED <<processes, call, nCalls, procs, nChunks, kills>>

\* The call in flight stays suspended at its await while the event loop runs
\* the other call: its continuation, or the start of a new call.
Switch ==
    /\ inst # other
    /\ inst' = other
    /\ other' = inst
    /\ UNCHANGED <<versions, cache, nInstalls, last>>
    /\ UNCHANGED <<processes, call, nCalls, procs, nChunks, kills>>

\* The caller has the result, and the call is remembered.
InstallReturnRecorded ==
    /\ inst.pc = "done"
    /\ inst' = NoInstall
    /\ last' = inst
    /\ UNCHANGED <<versions, cache, nInstalls, other>>
    /\ UNCHANGED <<processes, call, nCalls, procs, nChunks, kills>>

\* ----------------------------------------------------------- specifications
\* The supervisor with every input of launch and generateArguments; the
\* spawned processes exit and are killed but write nothing to stderr.
Next ==
    \/ LaunchBegin
    \/ GenerateArgumentsBegin
    \/ Resolve
    \/ DiagnoseJar
    \/ InstallMinecraftJar
    \/ DiagnoseLibraries
    \/ InstallLibraries
    \/ PreflightReject
    \/ PreflightJoin
    \/ JavaCheck
    \/ BuildOptions
    \/ ValidateJava
    \/ Spawn
    \/ Return
    \/ ProcessExits(CrashLocations, {CleanExit})
    \/ \E p \in DOMAIN procs : ExitEmit(p)
    \/ \E pid \in KillPids : Kill(pid)

Spec == Init /\ [][Next]_vars

\* The supervision of running processes: every launch is one that reaches the
\* spawn (an installed version, skipAssetsCheck, a java path that validates),
\* and the processes write to stderr.
LaunchRunBegin == Begin("launch", "java", MaxRunCalls)

NextRun ==
    \/ LaunchRunBegin
    \/ ResolveStep("installed", TRUE)
    \/ JavaCheck
    \/ BuildOptionsStep("none", "port", TRUE, "got", PlainRequest)
    \/ ValidateJavaStep("Okay")
    \/ SpawnStep(TRUE)
    \/ Return
    \/ \E p \in DOMAIN procs : StderrData(p)
    \/ \E p \in DOMAIN procs : \E i \in DOMAIN procs[p].chunks : GuessEncoding(p, i, "none")
    \/ \E p \in DOMAIN procs : \E i \in DOMAIN procs[p].chunks : \E d \in BOOLEAN : Decode(p, i, d)
    \/ ProcessExits(CrashLocations, {CleanExit})
    \/ \E p \in DOMAIN procs : ExitEmit(p)
    \/ \E pid \in KillPids : Kill(pid)

SpecRun == Init /\ [][NextRun]_vars

\* The exit report: launches as in SpecRun, processes that write nothing, and
\* every crash-report location of up to MaxLocationLen characters.
LocationCharacters == {"c", ".", "t", "x", "CR", "LF"}

LocationTexts == UNION {[1..n -> LocationCharacters] : n \in 0..MaxLocationLen}

NextCrash ==
    \/ LaunchRunBegin
    \/ ResolveStep("installed", TRUE)
    \/ JavaCheck
    \/ BuildOptionsStep("none", "port", TRUE, "got", PlainRequest)
    \/ ValidateJavaStep("Okay")
    \/ SpawnStep(TRUE)
    \/ Return
    \/ ProcessExits(LocationTexts, {CleanExit})
    \/ \E p \in DOMAIN procs : ExitEmit(p)

SpecCrash == Init /\ [][NextCrash]_vars

\* The exit of the processes: launches as in SpecRun, processes that write
\* one chunk less to stderr, are killed by their pid and end in any of the
\* ways of ExitReports.  The promises of the encoder settle, and the
\* callback of a settled promise is run.
Settle ==
    \/ \E p \in DOMAIN procs : \E i \in DOMAIN procs[p].chunks : GuessEncoding(p, i, "none")
    \/ \E p \in DOMAIN procs : \E i \in DOMAIN procs[p].chunks : \E d \in BOOLEAN : Decode(p, i, d)

Emit == \E p \in DOMAIN procs : ExitEmit(p)

NextExit ==
    \/ LaunchRunBegin
    \/ ResolveStep("installed", TRUE)
    \/ JavaCheck
    \/ BuildOptionsStep("none", "port", TRUE, "got", PlainRequest)
    \/ ValidateJavaStep("Okay")
    \/ SpawnStep(TRUE)
    \/ Return
    \/ \E p \in DOMAIN procs : nChunks + 1 < MaxChunks /\ StderrData(p)
    \/ Settle
    \/ ProcessExits({<<>>}, ExitReports)
    \/ Emit
    \/ \E pid \in DOMAIN procs : Kill(pid)

SpecExit == Init /\ [][NextExit]_vars /\ WF_vars(Settle) /\ WF_vars(Emit)

\* The registry: launches and generateArguments calls without preflight, of
\* any version and java path, and processes that exit and are killed.
NextRegistry ==
    \/ LaunchBegin
    \/ GenerateArgumentsBegin
    \/ \E version \in VersionInputs : ResolveStep(version, TRUE)
    \/ JavaCheck
    \/ \E built \in BOOLEAN : BuildOptionsStep("none", "port", built, "got", PlainRequest)
    \/ ValidateJavaStep("Okay")
    \/ Spawn
    \/ Return
    \/ ProcessExits({<<>>}, {CleanExit})
    \/ Emit
    \/ \E pid \in KillPids : Kill(pid)

SpecRegistry == Init /\ [][NextRegistry]_vars

\* #generateOptions: launches that reach it, for every server target, address
\* of the local server, memory bounds and port.
NextOptions ==
    \/ LaunchRunBegin
    \/ ResolveStep("installed", TRUE)
    \/ JavaCheck
    \/ \E server \in ServerInputs, address \in Addresses, rest \in RequestInputs :
          BuildOptionsStep(server, address, TRUE, "got", rest)
    \/ ValidateJavaStep("Okay")
    \/ Spawn
    \/ Return

SpecOptions == Init /\ [][NextOptions]_vars

\* The streams: launches as in SpecRun, processes that write to stdout and to
\* stderr, with every outcome of the encoding guess and of the decoding.
StreamSettle ==
    \/ \E p \in DOMAIN procs : \E i \in DOMAIN procs[p].chunks : \E guess \in Guesses :
          GuessEncoding(p, i, guess)
    \/ \E p \in DOMAIN procs : \E i \in DOMAIN procs[p].chunks : \E d \in BOOLEAN :
          Decode(p, i, d)
    \/ \E p \in DOMAIN procs : \E i \in DOMAIN procs[p].outs : \E guess \in Guesses :
          StdoutGuess(p, i, guess)
    \/ \E p \in DOMAIN procs : \E i \in DOMAIN procs[p].outs : \E d \in BOOLEAN :
          StdoutDecode(p, i, d)

NextStreams ==
    \/ LaunchRunBegin
    \/ ResolveStep("installed", TRUE)
    \/ JavaCheck
    \/ BuildOptionsStep("none", "port", TRUE, "got", PlainRequest)
    \/ ValidateJavaStep("Okay")
    \/ SpawnStep(TRUE)
    \/ Return
    \/ \E p \in DOMAIN procs : StderrData(p)
    \/ \E p \in DOMAIN procs : StdoutData(p)
    \/ StreamSettle
    \/ ProcessExits({<<>>}, {CleanExit})
    \/ Emit

SpecStreams == Init /\ [][NextStreams]_vars

\* The start of a process: launches with and without a preflight that finds
\* nothing to repair, a spawn that succeeds or not, and processes that show
\* their window and write one chunk less than in SpecStreams.
NextStart ==
    \/ LaunchRunBegin
    \/ \E skip \in BOOLEAN : ResolveStep("installed", skip)
    \/ DiagnoseJarStep("clean")
    \/ DiagnoseLibrariesStep([rejects |-> FALSE, libs |-> <<>>])
    \/ PreflightJoin
    \/ JavaCheck
    \/ BuildOptionsStep("none", "port", TRUE, "got", PlainRequest)
    \/ ValidateJavaStep("Okay")
    \/ Spawn
    \/ Return
    \/ \E p \in DOMAIN procs : nChunks + 1 < MaxChunks /\ StderrData(p)
    \/ \E p \in DOMAIN procs : nChunks + 1 < MaxChunks /\ StdoutData(p)
    \/ StreamSettle
    \/ \E p \in DOMAIN procs : WindowReady(p)
    \/ ProcessExits({<<>>}, {CleanExit})
    \/ Emit

SpecStart == Init /\ [][NextStart]_vars

\* The preflight: launches of an installed version with a java path that
\* validates, with and without skipAssetsCheck, of a version with MaxLibraries
\* libraries, for a user whose token the storage gives or not.
NextPreflight ==
    \/ LaunchRunBegin
    \/ \E skip \in BOOLEAN : ResolveStep("installed", skip)
    \/ DiagnoseJar
    \/ InstallMinecraftJar
    \/ DiagnoseAllLibraries
    \/ InstallLibraries
    \/ PreflightReject
    \/ PreflightJoin
    \/ JavaCheck
    \/ \E token \in Tokens : BuildOptionsStep("none", "port", TRUE, token, PlainRequest)
    \/ ValidateJavaStep("Okay")
    \/ Spawn
    \/ Return

SpecPreflight == Init /\ [][NextPreflight]_vars

\* The orchestrator: install calls made one after the other.
NextInstall ==
    \/ InstallBegin(InstallInputs)
    \/ GetCacheOrFetch(InstallInputs)
    \/ RefreshVersion(InstallInputs)
    \/ Installer(InstallInputs)
    \/ InstallReturn

SpecInstall == Init /\ [][NextInstall]_vars

\* The orchestrator asked for base versions, Forge, NeoForge and Optifine.
NextForge ==
    \/ InstallBegin(ForgeInputs)
    \/ GetCacheOrFetch(ForgeInputs)
    \/ RefreshVersion(ForgeInputs)
    \/ Installer(ForgeInputs)
    \/ InstallReturn

SpecForge == Init /\ [][NextForge]_vars

\* The orchestrator called again and again for one base version, each
\* returned call remembered.
NextTwice ==
    \/ InstallBegin(OneBaseInputs)
    \/ GetCacheOrFetch(OneBaseInputs)
    \/ RefreshVersion(OneBaseInputs)
    \/ Installer(OneBaseInputs)
    \/ InstallReturnRecorded

SpecTwice == Init /\ [][NextTwice]_vars

\* The orchestrator asked for Fabric, Quilt, LabyMod or the plain base version.
NextLoaders ==
    \/ InstallBegin(LoaderInputs)
    \/ GetCacheOrFetch(LoaderInputs)
    \/ RefreshVersion(LoaderInputs)
    \/ Installer(LoaderInputs)
    \/ InstallReturn

SpecLoaders == Init /\ [][NextLoaders]_vars

\* The orchestrator asked for Optifine.
NextOptifine ==
    \/ InstallBegin(OptifineInputs)
    \/ GetCacheOrFetch(OptifineInputs)
    \/ RefreshVersion(OptifineInputs)
    \/ Installer(OptifineInputs)
    \/ InstallReturn

SpecOptifine == Init /\ [][NextOptifine]_vars

\* The orchestrator asked for Forge and NeoForge on one base version.
NextCatalog ==
    \/ InstallBegin(CatalogInputs)
    \/ GetCacheOrFetch(CatalogInputs)
    \/ RefreshVersion(CatalogInputs)
    \/ Installer(CatalogInputs)
    \/ InstallReturn

SpecCatalog == Init /\ [][NextCatalog]_vars

\* The version stores a launcher starts with: the headers found on disk.
StoredVersions ==
    {<<>>, <<[BlankHeader EXCEPT !.id = <<"1">>, !.minecraft = <<"1">>]>>}

InitStored == \E store \in StoredVersions : InitWith(store)

\* The orchestrator of a launcher that starts with some store and an empty
\* cache, asked for base versions, Forge, NeoForge and LabyMod.
NextKeys ==
    \/ InstallBegin(KeyInputs)
    \/ GetCacheOrFetch(KeyInputs)
    \/ RefreshVersion(KeyInputs)
    \/ Installer(KeyInputs)
    \/ InstallReturn

SpecKeys == InitStored /\ [][NextKeys]_vars

\* The orchestrator with two callers that do not wait for each other.
NextConcurrent ==
    \/ InstallBegin(ForgeOnlyInputs)
    \/ GetCacheOrFetch(ForgeOnlyInputs)
    \/ RefreshVersion(ForgeOnlyInputs)
    \/ Installer(ForgeOnlyInputs)
    \/ InstallReturn
    \/ Switch

SpecConcurrent == Init /\ [][NextConcurrent]_vars

\* The orchestrator asked for any combination of loaders on one base version.
NextOneBase ==
    \/ InstallBegin(OneBaseInputs)
    \/ GetCacheOrFetch(OneBaseInputs)
    \/ RefreshVersion(OneBaseInputs)
    \/ Installer(OneBaseInputs)
    \/ InstallReturn

SpecOneBase == Init /\ [][NextOneBase]_vars

\* --------------------------------------------------------------- properties
Failed(c) == c.pc = "done" /\ c.result # "returned"

\* What a call that spawned nothing leaves behind: no process beyond those
\* spawned before it began, hence no registry entry of its own, and no
\* minecraft-start.
NothingSpawned(c) ==
    /\ c.pid = 0
    /\ Len(procs) = c.base
    /\ processes \subseteq 1..c.base
    /\ c.did \cap {"spawn", "minecraft-start"} = {}

\* C1: a launch call whose options carry no version, or a version that does
\* not parse, fails with launchNoVersionInstalled, and has run no diagnostic,
\* no repair install, no java validation and no spawn.
C1_NoVersionInstalled ==
    (call.kind = "launch" /\ call.options.version \in {"none", "unparsable"}) =>
        /\ call.pc = "done"
        /\ call.result = "launchNoVersionInstalled"
        /\ call.did = {}
        /\ call.jar = "idle" /\ call.lib = "idle"
        /\ NothingSpawned(call)

C1_Witness ==
    /\ call.kind = "launch"
    /\ call.options.version = "unparsable"
    /\ call.pc = "done"
    /\ processes # {}

\* C2: when java validation reports NotExisted the launch fails with
\* launchInvalidJavaPath, when it reports NoPermission with
\* launchJavaNoPermission, and this is the type the caller observes.
C2_ValidationErrorTypes ==
    (call.kind = "launch" /\ call.pc = "done") =>
        /\ call.validation = "NotExisted" => call.result = "launchInvalidJavaPath"
        /\ call.validation = "NoPermission" => call.result = "launchJavaNoPermission"

\* C3 as stated: every launch call with a resolved version and an empty java
\* path fails with launchNoProperJava, spawns nothing and leaves the registry
\* as it was.
C3_EmptyJavaAlwaysNoProperJava ==
    (call.kind = "launch" /\ call.pc = "done" /\ call.options.version = "installed"
       /\ call.options.java = "") =>
        /\ call.result = "launchNoProperJava"
        /\ NothingSpawned(call)

\* C3 as amended: a launch call with a resolved version and an empty java path
\* fails with launchNoProperJava when the preflight was skipped or completed,
\* and with launchGeneralException when the preflight, which runs first,
\* failed; either way java is not validated, nothing is spawned and the
\* registry gets no entry from the call.
C3_EmptyJava ==
    (call.kind = "launch" /\ call.pc = "done" /\ call.options.version = "installed"
       /\ call.options.java = "") =>
        /\ call.at = "javaCheck" => call.result = "launchNoProperJava"
        /\ call.at # "javaCheck" =>
              /\ call.at = "preflight"
              /\ call.result = "launchGeneralException"
              /\ PreflightRejected(call.jar, call.lib)
        /\ "validateJavaPath" \notin call.did
        /\ NothingSpawned(call)

C3_Witness ==
    /\ call.kind = "launch"
    /\ call.pc = "done"
    /\ call.options.version = "installed"
    /\ call.options.java = ""
    /\ call.options.skipAssetsCheck = FALSE
    /\ call.result = "launchNoProperJava"
    /\ processes # {}

\* C4: a failure that leaves launch or generateArguments is a LaunchException
\* of one of the six types, and a failure that is no LaunchException, raised by
\* the preflight, by the building of the options or arguments, or by the spawn,
\* leaves as launchGeneralException.
C4_ClosedTaxonomy ==
    Failed(call) =>
        /\ call.result \in LaunchExceptionTypes
        /\ (call.at \in {"preflight", "options", "spawn"} \/ call.thrown = RawError) =>
              call.result = "launchGeneralException"

C4_Witness ==
    /\ call.kind = "generateArguments"
    /\ Failed(call)
    /\ call.at = "options"
    /\ call.thrown = RawError

\* C5: a launch call that fails has spawned no process, has added no registry
\* entry and has emitted no minecraft-start.
C5_NoSpawnOnFailure ==
    (call.kind = "launch" /\ Failed(call)) => NothingSpawned(call)

C5_Witness ==
    /\ call.kind = "launch"
    /\ Failed(call)
    /\ call.at = "spawn"
    /\ processes # {}

\* C6: when minecraft-exit is emitted, every stderr chunk that had been
\* received when the termination was observed, and whose decoding does not
\* fail, has its lines in the error log the event carries.
C6_ExitAfterStderr ==
    \A p \in DOMAIN procs :
        procs[p].st = "exited" =>
            \A i \in 1..procs[p].awaited :
                procs[p].chunks[i] = "done" => i \in Range(procs[p].exit.errorLog)

\* C7: kill(pid) of a pid that has no registry entry signals no process and
\* leaves the registry as it was.
C7_KillUnknown ==
    [][\A pid \in KillPids :
          (Kill(pid) /\ pid \notin processes) =>
              (processes' = processes /\ procs' = procs)]_vars

C7_Witness ==
    /\ kills.pid \in DOMAIN procs
    /\ ~kills.known
    /\ procs[kills.pid].st = "running"
    /\ processes # {}

\* C8: the kill of a registered pid removes the entry of that pid only and
\* signals that handle once; no handle is ever signalled twice, so a later
\* kill of the same pid changes nothing.
C8_KillIdempotent ==
    /\ [](\A p \in DOMAIN procs : procs[p].signals <= 1)
    /\ [][\A pid \in KillPids :
            (Kill(pid) /\ pid \in processes) =>
                /\ processes' = processes \ {pid}
                /\ procs' = [procs EXCEPT ![pid].signals = @ + 1]
                /\ procs[pid].signals = 0]_vars

C8_Witness ==
    /\ kills.pid \in DOMAIN procs
    /\ ~kills.known
    /\ procs[kills.pid].signals = 1
    /\ processes # {}

\* s without its line terminators.
RECURSIVE StripTerminators(_)
StripTerminators(s) ==
    IF s = <<>> THEN <<>>
    ELSE IF Head(s) \in {"CR", "LF"} THEN StripTerminators(Tail(s))
    ELSE <<Head(s)>> \o StripTerminators(Tail(s))

\* C9: the crashReportLocation of the exit event is the reported location cut
\* right after its .txt extension, with every line terminator in it removed;
\* it is the empty string when no location is reported.
C9_CrashReportLocation ==
    \A p \in DOMAIN procs :
        procs[p].st = "exited" =>
            LET reported == procs[p].reported
                emitted == procs[p].exit.crashReportLocation
            IN /\ reported = <<>> => emitted = <<>>
               /\ LastIndexOf(reported, DotTxt) # -1 =>
                     emitted = StripTerminators(
                                   SubstringTo(reported, LastIndexOf(reported, DotTxt) + 4))

\* An install call has finished that asked for Forge while the store it read
\* held a header of that Forge version for that base version.
ForgeHeaderPresent ==
    /\ inst.pc = "done"
    /\ inst.input.forge \notin {Unread, Empty}
    /\ \E i \in DOMAIN inst.local :
         /\ inst.local[i].forge = inst.input.forge
         /\ inst.local[i].minecraft = inst.input.minecraft

\* The first such header.
ForgeHeader ==
    inst.local[CHOOSE i \in DOMAIN inst.local :
                  /\ inst.local[i].forge = inst.input.forge
                  /\ inst.local[i].minecraft = inst.input.minecraft
                  /\ \A j \in 1..(i - 1) :
                        ~(/\ inst.local[j].forge = inst.input.forge
                          /\ inst.local[j].minecraft = inst.input.minecraft)]

LogHas(op, kind) ==
    \E k \in DOMAIN inst.log : inst.log[k].op = op /\ inst.log[k].kind = kind

SameRequest(a, b) ==
    \A f \in DOMAIN a.input :
        a.input[f] = Unread \/ b.input[f] = Unread \/ a.input[f] = b.input[f]

\* The call c has invoked an installer.
InvokedInstaller(c) == \E k \in DOMAIN c.log : c.log[k].op = "install"

\* The call c has invoked refresh.
InvokedRefresh(c) == \E k \in DOMAIN c.log : c.log[k].op = "refresh"

\* C11: install is idempotent: a second call with the request of a first call
\* that succeeded (client side, no forced reinstall of the jar) returns the
\* same artifact id, invokes refresh and invokes no installer.
C11_Idempotent ==
    (/\ inst.pc = "done"
     /\ last.pc = "done"
     /\ last.error = "none"
     /\ SameRequest(last, inst)
     /\ last.input.side = <<"client">>
     /\ inst.input.side # <<"server">>
     /\ last.input.jar # <<"yes">>
     /\ inst.input.jar # <<"yes">>)
        => /\ ~InvokedInstaller(inst)
           /\ InvokedRefresh(inst)
           /\ inst.error = "none"
           /\ inst.result = last.result

\* The branches the call in flight has entered after the base step: the kinds
\* of its lookups' refreshes, its catalog requests and its installer calls.
Taken == {inst.log[k].kind : k \in DOMAIN inst.log} \ {"minecraft"}

Set(f) == inst.input[f] \notin {Unread, Empty}

\* The call has read forge, neoForged and optifine, and none is set.
NoForgeBranch ==
    /\ inst.input.forge = Empty
    /\ inst.input.neoForged = Empty
    /\ inst.input.optifine = Empty

HasPrefix(s, m) == Len(m) <= Len(s) /\ \A i \in 1..Len(m) : s[i] = m[i]

\* s without its first n characters.
Without(s, n) == [i \in 1..(Len(s) - n) |-> s[i + n]]

\* The examples of the normalisation.
Base1201 == <<"1", ".", "2", "0", ".", "1">>

HDUI6 == <<"H", "D", "_", "U", "_", "I", "6">>

Calls(c, op, kind) == {k \in DOMAIN c.log : c.log[k].op = op /\ c.log[k].kind = kind}

\* The store the call c read holds a header of the Forge version and the base
\* version c asks for.
ForgeHeaderIn(c) ==
    \E i \in DOMAIN c.local :
        c.local[i].forge = c.input.forge /\ c.local[i].minecraft = c.input.minecraft

\* C14: a call asking for forge and no optifine, with no header of that Forge
\* version in the store, asks for the Forge catalog of the base version,
\* invokes the Forge installer once, with the base version, the forge version
\* and the side, and returns the id that installer returned; the same request
\* made again returns the same id without invoking the Forge installer.
C14_ForgeInstall ==
    /\ (/\ inst.pc = "done"
        /\ inst.error = "none"
        /\ Set("forge")
        /\ inst.input.optifine = Empty
        /\ ~ForgeHeaderIn(inst))
          => /\ \E k \in Calls(inst, "getCacheOrFetch", "forge") :
                  inst.log[k].arg = <<"/forge-versions/">> \o inst.input.minecraft
             /\ Cardinality(Calls(inst, "install", "forge")) = 1
             /\ \A k \in Calls(inst, "install", "forge") :
                  /\ inst.log[k].arg[1] = inst.input.minecraft
                  /\ inst.log[k].arg[2] = inst.input.forge
                  /\ inst.log[k].arg[4] = inst.input.side
                  /\ inst.result = InstalledId("forge", inst.log[k].arg)
    /\ (/\ inst.pc = "done"
        /\ inst.error = "none"
        /\ last.pc = "done"
        /\ last.error = "none"
        /\ SameRequest(last, inst)
        /\ last.input.forge \notin {Unread, Empty}
        /\ last.input.optifine = Empty
        /\ Calls(last, "install", "forge") # {})
          => /\ Calls(inst, "install", "forge") = {}
             /\ Calls(inst, "refresh", "forge") # {}
             /\ inst.result = last.result

\* C15: one install call runs at most one of the Forge and NeoForge branches;
\* with forge and neoForged both set no NeoForge lookup, catalog request or
\* installer is invoked, and forgeVersion is what the Forge step produced.
C15_Alternatives ==
    /\ ~({"forge", "neoForged"} \subseteq Taken)
    /\ (Set("forge") /\ Set("neoForged") /\ inst.forgeVersion # Empty)
          => \/ \E k \in Calls(inst, "refresh", "forge") : inst.forgeVersion = inst.log[k].arg
             \/ \E k \in Calls(inst, "install", "forge") :
                  inst.forgeVersion = InstalledId("forge", inst.log[k].arg)

\* The headers, in the store the call in flight read, of the base version, the
\* normalized optifine string and the forge-branch id (or none) of the call.
OptifineHeaders ==
    {i \in DOMAIN inst.local :
        /\ inst.local[i].minecraft = inst.input.minecraft
        /\ inst.local[i].optifine = inst.optifineVersion
        /\ inst.local[i].forge = inst.forgeVersion}

FirstOptifineHeader ==
    inst.local[CHOOSE i \in OptifineHeaders : \A j \in OptifineHeaders : i <= j]

\* C16: when optifine is asked for and a header matches (minecraft, normalized
\* optifine, forge-branch id or empty), install refreshes that header and
\* returns its id: it does not invoke the Optifine installer and enters no
\* Fabric, Quilt or LabyMod branch.
C16_OptifineShortCircuit ==
    (Set("optifine") /\ OptifineHeaders # {}) =>
        /\ \E k \in Calls(inst, "refresh", "optifine") :
              inst.log[k].arg = FirstOptifineHeader.id
        /\ Calls(inst, "install", "optifine") = {}
        /\ Taken \cap {"fabric", "quilt", "labyMod"} = {}
        /\ inst.pc = "done" => inst.error = "none" /\ inst.result = FirstOptifineHeader.id

\* An Optifine artifact installed by an earlier call has been found again.
C16_Witness ==
    /\ Set("optifine")
    /\ OptifineHeaders # {}
    /\ FirstOptifineHeader.optifine = <<"_">> \o OptifineEdition
    /\ inst.pc = "done"
    /\ inst.result = FirstOptifineHeader.id
    /\ inst.input.fabricLoader = Unread

\* The catalog cached under key has no entry equal to requested.
Missing(key, requested) ==
    \E entry \in cache : entry.key = key /\ requested \notin entry.content

\* The call in flight has asked for the catalog of `kind` and has it.
Fetched(kind) ==
    /\ Calls(inst, "getCacheOrFetch", kind) # {}
    /\ ~(inst.pc = "getCacheOrFetch" /\ inst.pending.kind = kind)

\* C17: when the catalog install fetched has no entry for the requested Forge
\* (NeoForge) version, install goes on to invoke the installer with the
\* requested string as the version, and for Forge with no installer reference.
C17_CatalogMiss ==
    /\ (/\ Fetched("forge")
        /\ Missing(<<"/forge-versions/">> \o inst.input.minecraft, inst.input.forge))
          => /\ Cardinality(Calls(inst, "install", "forge")) = 1
             /\ \A k \in Calls(inst, "install", "forge") :
                  inst.log[k].arg = <<inst.input.minecraft, inst.input.forge, Empty,
                                      inst.input.side>>
    /\ (/\ Fetched("neoForged")
        /\ Missing(<<"/neoforged-versions/">> \o inst.input.minecraft, inst.input.neoForged))
          => /\ Cardinality(Calls(inst, "install", "neoForged")) = 1
             /\ \A k \in Calls(inst, "install", "neoForged") :
                  inst.log[k].arg = <<inst.input.neoForged, inst.input.minecraft>>

\* Forge was installed from a catalog that does not list it.
C17_Witness ==
    /\ Fetched("forge")
    /\ Missing(<<"/forge-versions/">> \o inst.input.minecraft, inst.input.forge)
    /\ inst.pc = "done"
    /\ inst.error = "none"
    /\ inst.input.neoForged = Empty
    /\ inst.input.optifine = Empty
    /\ inst.result = inst.input.minecraft \o <<"-forge-">> \o inst.input.forge

\* C18: when the base-version catalog has no entry for the requested base
\* version, the base installer is invoked with the requested string.
C18_BaseFallback ==
    \A k \in Calls(inst, "install", "minecraft") :
        Missing(<<"/minecraft-versions">>, inst.input.minecraft)
           => inst.log[k].arg[1] = inst.input.minecraft

\* C20: a request for the server side invokes the base installer although the
\* store holds the header a client install of that base version made.
C20_SideSignificant ==
    (/\ last.pc = "done"
     /\ last.error = "none"
     /\ \E k \in Calls(last, "install", "minecraft") : last.log[k].arg[2] = <<"client">>
     /\ last.input.minecraft = inst.input.minecraft
     /\ \E i \in DOMAIN inst.local : inst.local[i].id = inst.input.minecraft
     /\ inst.input.side = <<"server">>
     /\ Fetched("minecraft")
     /\ inst.pc = "done")
        => Calls(inst, "install", "minecraft") # {}

InstallerKinds == {"minecraft", "forge", "neoForged", "optifine", "fabric", "quilt", "labyMod"}

\* C19: no installer is invoked twice in one call; when an installer fails,
\* install fails with that installer's failure and returns no id, and the
\* failed invocation is the last thing the call did: a failed base installer
\* leaves every loader branch unentered.
C19_InstallerFailure ==
    /\ \A kind \in InstallerKinds : Cardinality(Calls(inst, "install", kind)) <= 1
    /\ inst.error # "none" =>
         /\ inst.pc = "done"
         /\ inst.result = Empty
         /\ inst.log[Len(inst.log)].op = "install"
         /\ inst.log[Len(inst.log)].kind = inst.error
         /\ inst.error = "minecraft" => Taken = {}

\* The Optifine installer failed after the Forge installer had succeeded.
C19_Witness ==
    /\ inst.error = "optifine"
    /\ Calls(inst, "install", "forge") # {}
    /\ inst.pc = "done"

\* The store the call in flight read holds a header whose `field` is the
\* requested base version.
BaseHeaderBy(field) ==
    \E i \in DOMAIN inst.local : inst.local[i][field] = inst.input.minecraft

\* The catalog entry install finds for the requested base version: the entry,
\* or undefined when the cached catalog has none.
CatalogEntry ==
    IF Missing(<<"/minecraft-versions">>, inst.input.minecraft)
    THEN Empty
    ELSE inst.input.minecraft

C25_ForgeBranchPrecedence ==
    /\ (Set("optifine") \/ inst.forgeVersion # Empty)
          => Taken \cap {"fabric", "quilt", "labyMod"} = {}
    /\ (inst.input.optifine = Empty /\ inst.forgeVersion # Empty)
          => /\ inst.pc = "done"
             /\ inst.error = "none"
             /\ inst.result = inst.forgeVersion

\* A Forge request without optifine has returned the Forge id without looking
\* at fabricLoader, quiltLoader or labyMod.
C25_Witness ==
    /\ Set("forge")
    /\ inst.input.optifine = Empty
    /\ inst.forgeVersion # Empty
    /\ inst.result = inst.forgeVersion
    /\ inst.input.fabricLoader = Unread
    /\ inst.input.quiltLoader = Unread
    /\ inst.input.labyMod = Unread
    /\ inst.pc = "done"

\* The ids the forge-branch steps of the call in flight have produced before
\* position k of its log: those refreshed and those the installers returned.
ForgeBranchIds(k) ==
    {inst.log[j].arg : j \in {i \in 1..(k - 1) : inst.log[i].op = "refresh"
                                                   /\ inst.log[i].kind \in {"forge", "neoForged"}}}
    \cup {InstalledId(inst.log[j].kind, inst.log[j].arg) :
             j \in {i \in 1..(k - 1) : inst.log[i].op = "install"
                                        /\ inst.log[i].kind \in {"forge", "neoForged"}}}

\* A forge-branch step of the call in flight is awaited.
ForgeBranchPending ==
    inst.pc \in {"getCacheOrFetch", "refresh", "install"}
    /\ inst.pending.kind \in {"forge", "neoForged"}

\* C26: the Optifine installer is invoked only when no forge-branch step is
\* under way; its inheritFrom is the forge-branch id, produced by a finished
\* forge-branch step when forge or neoForged is set and absent when neither
\* is; install returns the id the Optifine installer returned.
C26_OptifineOrder ==
    \A k \in Calls(inst, "install", "optifine") :
        /\ ~ForgeBranchPending
        /\ inst.log[k].arg[4] = inst.forgeVersion
        /\ (Set("forge") \/ Set("neoForged")) => inst.log[k].arg[4] \in ForgeBranchIds(k)
        /\ (inst.input.forge = Empty /\ inst.input.neoForged = Empty)
              => inst.log[k].arg[4] = Empty
        /\ (inst.pc = "done" /\ inst.error = "none")
              => inst.result = InstalledId("optifine", inst.log[k].arg)

\* Optifine was installed on top of the Forge artifact installed just before.
C26_Witness ==
    /\ Set("forge")
    /\ Calls(inst, "install", "forge") # {}
    /\ \E k \in Calls(inst, "install", "optifine") :
          /\ inst.log[k].arg[4] = inst.input.minecraft \o <<"-forge-">> \o inst.input.forge
          /\ inst.result = InstalledId("optifine", inst.log[k].arg)
    /\ inst.pc = "done"
    /\ inst.error = "none"

\* The positions in the log of the call in flight where a catalog is asked
\* for through the cache, or fetched.
CatalogCalls(kind) ==
    {k \in DOMAIN inst.log :
        inst.log[k].op \in {"getCacheOrFetch", "fetch"} /\ inst.log[k].kind = kind}

\* The store the call in flight read holds a header of the requested base
\* version with the requested version in `field`.
LoaderHeader(field, requested) ==
    \E i \in DOMAIN inst.local :
        inst.local[i][field] = requested /\ inst.local[i].minecraft = inst.input.minecraft

\* Every catalog is asked for under its own key, and the Forge installer is
\* given the installer reference of the catalog of the requested base version.
OwnKeys ==
    /\ \A k \in CatalogCalls("minecraft") : inst.log[k].arg = <<"/minecraft-versions">>
    /\ \A k \in CatalogCalls("forge") :
          inst.log[k].arg = <<"/forge-versions/">> \o inst.input.minecraft
    /\ \A k \in CatalogCalls("neoForged") :
          inst.log[k].arg = <<"/neoforged-versions/">> \o inst.input.minecraft
    /\ \A k \in CatalogCalls("labyMod") : inst.log[k].arg = <<"/labymod">>
    /\ \A k \in Calls(inst, "install", "forge") :
          inst.log[k].arg[3] = Empty
             <=> Missing(<<"/forge-versions/">> \o inst.input.minecraft, inst.input.forge)
    /\ \A a, b \in cache : a.key = b.key => a = b

\* C28 as stated: every catalog is asked for under its own key, and a catalog
\* is asked for or fetched only when its component has no matching header.
C28_Original ==
    /\ OwnKeys
    /\ CatalogCalls("minecraft") # {} => ~BaseHeaderBy("id")
    /\ CatalogCalls("forge") # {} => ~LoaderHeader("forge", inst.input.forge)
    /\ CatalogCalls("neoForged") # {} => ~LoaderHeader("neoForged", inst.input.neoForged)
    /\ CatalogCalls("labyMod") # {} => ~LoaderHeader("labyMod", inst.input.labyMod)

\* C28: every catalog is asked for under its own key; the Forge, NeoForge and
\* LabyMod catalogs are asked for only when their component has no matching
\* header; the base-version catalog is asked for by every call, and fetched
\* when it is not cached, whether or not the base version has a header.
C28_CacheKeys ==
    /\ OwnKeys
    /\ inst.pc # "idle" => Calls(inst, "getCacheOrFetch", "minecraft") # {}
    /\ CatalogCalls("forge") # {} => ~LoaderHeader("forge", inst.input.forge)
    /\ CatalogCalls("neoForged") # {} => ~LoaderHeader("neoForged", inst.input.neoForged)
    /\ CatalogCalls("labyMod") # {} => ~LoaderHeader("labyMod", inst.input.labyMod)

\* The call asked for the base-version catalog although the base version has
\* a header, it fetched a Forge catalog, and the Forge catalogs of two base
\* versions are cached side by side.
C28_Witness ==
    /\ Calls(inst, "getCacheOrFetch", "minecraft") # {}
    /\ BaseHeaderBy("id")
    /\ Calls(inst, "fetch", "forge") # {}
    /\ \E a, b \in cache :
          /\ a.key = <<"/forge-versions/", "1">>
          /\ b.key = <<"/forge-versions/", "2">>
          /\ a.content # b.content

\* The call c has done the Forge step of a request for Forge, with no header
\* of the requested Forge version in the store it read.
MissedForge(c) ==
    /\ c.input.forge \notin {Unread, Empty}
    /\ c.input.neoForged # Unread \/ (c.pc = "install" /\ c.pending.kind = "forge")
    /\ ~\E i \in DOMAIN c.local :
          c.local[i].forge = c.input.forge /\ c.local[i].minecraft = c.input.minecraft

\* C27: a call that misses the local lookup of Forge invokes the Forge
\* installer once, whatever another call with the same request is doing: two
\* calls that both miss invoke it once each, with the same arguments.
C27_NoDeduplication ==
    /\ \A c \in {inst, other} :
          MissedForge(c) => Cardinality(Calls(c, "install", "forge")) = 1
    /\ (MissedForge(inst) /\ MissedForge(other) /\ SameRequest(inst, other))
          => \A j \in Calls(inst, "install", "forge"), k \in Calls(other, "install", "forge") :
                inst.log[j].arg = other.log[k].arg

\* Two calls with the same request both missed the local lookup and both wait
\* for the Forge installer they invoked.
C27_Witness ==
    /\ MissedForge(inst) /\ MissedForge(other)
    /\ inst.input = other.input
    /\ inst.pc = "install" /\ inst.pending.kind = "forge"
    /\ other.pc = "install" /\ other.pending.kind = "forge"
    /\ inst.pending.arg = other.pending.arg

\* The call has gone past the preflight.
PastPreflight(c) ==
    \/ c.pc \in {"javaCheck", "options", "validate", "spawn"}
    \/ c.at \notin {"none", "resolve", "preflight"}
    \/ c.result = "returned"

\* The launch call in flight has resolved its version and read skipAssetsCheck
\* as skip.
LaunchWith(skip) ==
    /\ call.kind = "launch"
    /\ call.pc # "resolve" /\ call.at # "resolve"
    /\ call.options.skipAssetsCheck = skip

\* C23 as stated: when the token storage fails, the launch fails with
\* launchUserStatusRefreshFailed and spawns nothing.
C23_TokenFailure ==
    (call.kind = "launch" /\ call.token = "failed") =>
        /\ "spawn" \notin call.did
        /\ call.pc = "done" => call.result = "launchUserStatusRefreshFailed"

\* C24: with skipAssetsCheck unset both diagnostics are started before the
\* join is awaited; the call goes past the preflight only when both
\* diagnostics and the repairs they started have completed; a rejection of a
\* diagnostic or of a repair aborts the launch with nothing spawned.
C24_PreflightJoin ==
    LaunchWith(FALSE) =>
        /\ {"diagnoseJar", "diagnoseLibraries"} \subseteq call.did
        /\ call.jar # "idle" /\ call.lib # "idle"
        /\ PastPreflight(call) => (call.jar = "ok" /\ call.lib = "ok")
        /\ call.did \cap {"validateJavaPath", "spawn"} # {} => (call.jar = "ok" /\ call.lib = "ok")
        /\ (call.jar = "failed" \/ call.lib = "failed") =>
              /\ call.pc \in {"preflight", "done"}
              /\ call.pc = "done" => (call.at = "preflight" /\ Failed(call))
              /\ NothingSpawned(call)

\* A launch spawned a process after both repairs were started.
C24_Witness ==
    /\ LaunchWith(FALSE)
    /\ {"installMinecraftJar", "installLibraries", "spawn"} \subseteq call.did
    /\ call.result = "returned"

\* C29: with skipAssetsCheck set, launch runs no diagnostic and no repair, and
\* goes from the resolution to the java checks.
C29_SkipAssetsCheck ==
    LaunchWith(TRUE) =>
        /\ call.did \cap {"diagnoseJar", "diagnoseLibraries", "installMinecraftJar",
                          "installLibraries"} = {}
        /\ call.repairs = <<>>
        /\ call.reported = NoCall.reported
        /\ call.jar = "idle" /\ call.lib = "idle"
        /\ call.pc # "preflight" /\ call.at # "preflight"
        /\ call.pc \in {"javaCheck", "options", "validate", "spawn", "done"}

\* A launch with skipAssetsCheck set spawned a process.
C29_Witness ==
    /\ LaunchWith(TRUE)
    /\ "spawn" \in call.did
    /\ call.result = "returned"

\* The positions in the repairs of the call where op is invoked.
Repairs(op) == {k \in DOMAIN call.repairs : call.repairs[k].op = op}

\* C30: the base-artifact reinstall is invoked exactly when the jar diagnostic
\* has reported an issue, the library install exactly when the library
\* diagnostic has reported a list that is not empty, once, and with the
\* libraries of the reported issues, in their order.
C30_RepairByDiagnostics ==
    call.kind = "launch" =>
        /\ Repairs("installMinecraftJar") # {} <=> call.reported.jar = "issue"
        /\ Cardinality(Repairs("installMinecraftJar")) <= 1
        /\ Repairs("installLibraries") # {}
              <=> (call.reported.lib = "reported" /\ Len(call.reported.libs) > 0)
        /\ Cardinality(Repairs("installLibraries")) <= 1
        /\ \A k \in Repairs("installLibraries") :
              /\ Len(call.repairs[k].arg) = Len(call.reported.libs)
              /\ \A i \in DOMAIN call.reported.libs :
                    call.repairs[k].arg[i] = call.reported.libs[i].library

\* The library diagnostic reported two libraries and the jar diagnostic an
\* issue; both repairs were invoked.
C30_Witness ==
    /\ call.kind = "launch"
    /\ call.reported.jar = "issue"
    /\ Len(call.reported.libs) = 2
    /\ Repairs("installMinecraftJar") # {}
    /\ \E k \in Repairs("installLibraries") : call.repairs[k].arg = <<1, 2>>

\* The minecraft-exit events emitted for the process p.
ExitEvents(p) == {k \in DOMAIN procs[p].events : procs[p].events[k] = "minecraft-exit"}

\* Every process has at most one minecraft-exit event, none before its exit
\* is observed and one once the event is emitted; from the observation of the
\* exit on the pid is not in the registry; the event carries the pid, what the
\* watcher reported, the time played, and error log lines accumulated.
ExitReported ==
    \A p \in DOMAIN procs :
        /\ Cardinality(ExitEvents(p)) = IF procs[p].st = "exited" THEN 1 ELSE 0
        /\ procs[p].st \in {"exiting", "exited"} => p \notin processes
        /\ procs[p].st = "exited" =>
              /\ procs[p].exit.pid = p
              /\ procs[p].exit.report = procs[p].report
              /\ procs[p].report \in ExitReports
              /\ Len(procs[p].exit.errorLog) <= Len(procs[p].errorLogs)
              /\ \A i \in DOMAIN procs[p].exit.errorLog :
                    procs[p].exit.errorLog[i] = procs[p].errorLogs[i]

\* C22: every spawned process has exactly one minecraft-exit event once its
\* exit is observed, never one before; the event carries the pid, the code,
\* signal and crash report the watcher gave, the time played and the error
\* log; the pid is out of the registry when it is emitted; an observed exit
\* is followed by the event, also for a process that was killed.
C22_ExitEvent ==
    /\ []ExitReported
    /\ \A p \in 1..MaxRunCalls :
          (p \in DOMAIN procs /\ procs[p].st = "exiting")
             ~> (p \in DOMAIN procs /\ procs[p].st = "exited")

\* The exit event of a process that was killed before its exit was observed,
\* ended by the signal, with an error log.
C22_Witness ==
    \E p \in DOMAIN procs :
        /\ procs[p].st = "exited"
        /\ procs[p].signals > 0
        /\ procs[p].exit.report.signal = "SIGTERM"
        /\ procs[p].exit.errorLog # <<>>
        /\ p \notin processes

\* From its start to its end a generateArguments call has run no diagnostic,
\* repair, java validation or spawn; it fails at the resolution when no
\* version resolves, whatever the java path, and at the java check when the
\* version resolves and the java path is empty.
ArgumentsOnly ==
    call.kind = "generateArguments" =>
        /\ call.did = {}
        /\ call.repairs = <<>>
        /\ call.jar = "idle" /\ call.lib = "idle"
        /\ call.validation = "none"
        /\ call.pc \notin {"preflight", "validate", "spawn"}
        /\ NothingSpawned(call)
        /\ call.options.version \in {"none", "unparsable"} =>
              (call.pc = "done" /\ call.result = "launchNoVersionInstalled")
        /\ (call.options.version = "installed" /\ call.options.java = "") =>
              \/ call.pc = "javaCheck"
              \/ call.pc = "done" /\ call.result = "launchNoProperJava"

\* C38: generateArguments spawns nothing, runs no preflight and no java
\* validation, and no step of it changes the registry or a process; it fails
\* with launchNoVersionInstalled when no version resolves, and otherwise with
\* launchNoProperJava when the java path is empty.
C38_GenerateArguments ==
    /\ []ArgumentsOnly
    /\ [][((call.kind = "generateArguments" \/ call'.kind = "generateArguments")
             /\ call' # call) => (processes' = processes /\ procs' = procs)]_vars

\* A generateArguments call with an empty java path and no version has failed
\* while a process of an earlier launch is registered.
C38_Witness ==
    /\ call.kind = "generateArguments"
    /\ call.options.version = "none"
    /\ call.options.java = ""
    /\ call.result = "launchNoVersionInstalled"
    /\ processes # {}

\* A pid in the registry is the pid of a spawned process whose exit has not
\* been observed and that has not been killed since.
RegistryOfRunning ==
    \A pid \in processes :
        /\ pid \in DOMAIN procs
        /\ procs[pid].st = "running"
        /\ procs[pid].signals = 0

\* A step that changes the registry is the spawn of a launch call, which adds
\* the pid of the new process, the observation of the exit of a registered
\* process, which removes its pid, or the kill of a registered pid, which
\* removes it.
RegistryStep ==
    processes' # processes =>
        \/ /\ call.kind = "launch" /\ call.pc = "spawn"
           /\ call'.pid = Len(procs) + 1
           /\ "spawn" \in call'.did
           /\ Len(procs') = Len(procs) + 1
           /\ processes' = processes \cup {call'.pid}
        \/ \E pid \in processes :
              /\ processes' = processes \ {pid}
              /\ \/ procs[pid].st = "running" /\ procs'[pid].st = "exiting"
                 \/ kills'.pid = pid /\ kills'.known

\* C31: the registry holds only pids of spawned processes whose exit has not
\* been observed and that were not killed; it is changed only by the spawn of
\* a launch, by the exit handler and by kill, never by generateArguments.
C31_Registry ==
    /\ []RegistryOfRunning
    /\ [][RegistryStep]_vars
    /\ [][(call.kind = "generateArguments" /\ call' # call) => processes' = processes]_vars

\* One process is registered after another was killed and has exited.
C31_Witness ==
    /\ processes = {2}
    /\ procs[1].signals = 1
    /\ procs[1].st = "exited"
    /\ procs[2].st = "running"

\* C32 as stated: the process launcher is given the request's minMemory as the
\* minimum memory and its maxMemory as the maximum memory.
C32_MemoryBounds ==
    (call.kind = "launch" /\ "spawn" \in call.did) =>
        /\ call.launchOptions.minMemory = call.options.minMemory
        /\ call.launchOptions.maxMemory = call.options.maxMemory

\* C33: a launch that has built its options has set no server when the request
\* has none, and else has set the port of the request and, as the host, the
\* loopback endpoint of the local server when the requested host is the
\* development-mode authority and the requested host otherwise; a launch that
\* needs the endpoint while the local server has no address fails at the
\* options with launchGeneralException and spawns nothing.
C33_ServerTarget ==
    call.kind = "launch" =>
        /\ (call.pc \in {"validate", "spawn"} \/ "spawn" \in call.did) =>
              LET server == call.launchOptions.server IN
              /\ server.set <=> call.options.server # "none"
              /\ server.set =>
                    /\ server.port = call.options.port
                    /\ call.options.server = "AUTHORITY_DEV"
                          <=> server.ip \in {GetAddress(a) : a \in Addresses \ {"none"}}
                    /\ call.options.server # "AUTHORITY_DEV" => server.ip = call.options.server
        /\ call.at = "options" =>
              /\ call.options.server = "AUTHORITY_DEV"
              /\ call.result = "launchGeneralException"
              /\ call.launchOptions = NoLaunchOptions
              /\ NothingSpawned(call)

\* A process was spawned with the loopback endpoint of a local server that
\* listens on a pipe, and the port of the request.
C33_Witness ==
    /\ call.kind = "launch"
    /\ "spawn" \in call.did
    /\ call.options.server = "AUTHORITY_DEV"
    /\ call.launchOptions.server.ip = GetAddress("pipe")
    /\ call.launchOptions.server.port = <<25565>>

\* Every process has minecraft-start, with its pid, as its first event and as
\* no other event; its exit event comes when its exit has been observed; the
\* launch that spawned it had resolved the version, had passed the preflight
\* or skipped it, and had validated java.
StartFirst ==
    /\ \A p \in DOMAIN procs :
          /\ procs[p].events # <<>>
          /\ procs[p].events[1] = "minecraft-start"
          /\ \A k \in DOMAIN procs[p].events :
                /\ k > 1 => procs[p].events[k] # "minecraft-start"
                /\ procs[p].events[k] = "minecraft-exit" => procs[p].st = "exited"
          /\ procs[p].startPid = p
    /\ (call.kind = "launch" /\ "spawn" \in call.did) =>
          /\ call.options.version = "installed"
          /\ call.options.skipAssetsCheck \/ (call.jar = "ok" /\ call.lib = "ok")
          /\ call.validation = "Okay"
          /\ call.pid \in DOMAIN procs

\* C34: a launch spawns after the resolution, the preflight and the java
\* validation; the step that spawns a process registers it under its pid and
\* emits minecraft-start with that pid, which is the first event of the
\* process and is emitted once; every other event of the process comes later.
C34_StartFirst ==
    /\ []StartFirst
    /\ [][Len(procs') > Len(procs) =>
            /\ call.kind = "launch" /\ call.pc = "spawn"
            /\ Len(procs') = Len(procs) + 1
            /\ call'.pid = Len(procs')
            /\ call'.pid \in processes'
            /\ procs'[call'.pid].events = <<"minecraft-start">>]_vars

\* A process has shown its window, written a chunk and exited.
C34_Witness ==
    \E p \in DOMAIN procs :
        /\ Len(procs[p].events) = 4
        /\ procs[p].events[4] = "minecraft-exit"
        /\ \E k \in 2..3 : procs[p].events[k] = "minecraft-window-ready"
        /\ procs[p].texts # <<>>

\* C35 as stated: the text events of each stream of a process are emitted in
\* the order in which the chunks arrived, and so are the lines of the error
\* log.
C35_StreamOrder ==
    \A p \in DOMAIN procs :
        /\ \A j, k \in DOMAIN procs[p].texts :
              (j < k /\ procs[p].texts[j].stream = procs[p].texts[k].stream)
                 => procs[p].texts[j].chunk < procs[p].texts[k].chunk
        /\ \A j, k \in DOMAIN procs[p].errorLogs :
              j < k => procs[p].errorLogs[j] < procs[p].errorLogs[k]

\* The text events emitted for the chunk i of a stream of the process p.
TextsOf(p, stream, i) ==
    {k \in DOMAIN procs[p].texts :
        procs[p].texts[k].stream = stream /\ procs[p].texts[k].chunk = i}

\* C36 as stated: a chunk is decoded with the guessed encoding or, without
\* one, with UTF8; every chunk whose processing has ended has exactly one text
\* event; a failed decoding does not fail the launch.
C36_BestEffortDecoding ==
    \A p \in DOMAIN procs :
        /\ \A i \in DOMAIN procs[p].chunks :
              /\ procs[p].chunks[i] \in {"decode", "done", "failed"}
                    => procs[p].encodings[i] \in {"guessed", "UTF8"}
              /\ procs[p].chunks[i] \in {"done", "failed"}
                    => Cardinality(TextsOf(p, "stderr", i)) = 1
        /\ \A i \in DOMAIN procs[p].outs :
              /\ procs[p].outs[i] \in {"decode", "done", "failed"}
                    => procs[p].outEncodings[i] \in {"guessed", "UTF8"}
              /\ procs[p].outs[i] \in {"done", "failed"}
                    => Cardinality(TextsOf(p, "stdout", i)) = 1
        /\ call.pid = p => call.result = "returned"

\* C37 as stated: no minecraft-stdout and no minecraft-stderr event of a
\* process comes after its minecraft-exit event.
C37_ExitTerminal ==
    \A p \in DOMAIN procs :
        \A j, k \in DOMAIN procs[p].events :
            (j < k /\ procs[p].events[j] = "minecraft-exit")
               => procs[p].events[k] \notin {"minecraft-stdout", "minecraft-stderr"}

====
